---- MODULE Spec2Model ----
(***************************************************************************)
(* Model of the sigsvc WebRTC signaling broker.                            *)
(*                                                                         *)
(* The broker is one asyncio process.  Every connected peer has a read     *)
(* loop task (webrtc.handler) and, once its WebSocket has closed, a        *)
(* disconnect task (webrtc.handle_connection_closed).  A task runs without *)
(* interruption between two awaits on I/O; every action below is one such  *)
(* run: it starts where a task is resumed (a frame arrives, an upstream    *)
(* HTTP response arrives, a send returns) and ends at the next await.      *)
(***************************************************************************)
EXTENDS Naturals, FiniteSets, Sequences, TLC

\* ------------------------------------------------------------------ bounds

\* frames the clients send in one behaviour, over all connections
MaxFrames == 1

\* cookies in one Cookie header (authentication gate)
MaxCookies == 2

\* frames the clients send in one behaviour that starts from the one
\* established session of OrderInit
MaxFramesInOrder == 2

\* connections that the clients or the network close in one such behaviour
MaxClosesInOrder == 1

\* ------------------------------------------------------------------ values

\* peer ids (uuid4 strings in the code), one per connection
Peers == {"a", "b"}

\* session ids known to the upstream session service
Sessions == {"s1"}

\* Python's None, for an id or a role
None == "None"

PRODUCER == "PRODUCER"
CONSUMER == "CONSUMER"
PeerRole == {PRODUCER, CONSUMER}

Loop == "loop"
Closed == "closed"
Contexts == {Loop, Closed}

\* the two tasks of a connection: its read loop and its disconnect task
Tasks == Peers \X Contexts

VARIABLES
    ws,         \* ws[p]: the WebSocket of p is "new" (not connected yet), "open" or "closed"
    peers,      \* webrtc.peers: the ids in the registry
    role,       \* Peer.role
    meta,       \* Peer.meta, reduced to its consumerId key
    c2p,        \* webrtc.consumers_to_producers_map
    cache,      \* SessionsManager.sessions_cache
    up,         \* the state of the upstream session service
    task,       \* task[t]: where task t is suspended, and its locals
    nframes,    \* frames dispatched so far
    budget,     \* frames the clients send in this behaviour
    calls,      \* history: pause/close calls issued upstream
    ncalls,     \* history: their number per session
    sent,       \* history: the frames the broker has sent
    endFrames,  \* history: endSession frames delivered, per peer
    answer,     \* the upstream answer that resumed a task in the last step
    hdr,        \* auth gate: the Cookie header of the handshake (or None)
    debugNoAuth,\* auth gate: DEBUG_NO_AUTH
    authToken,  \* auth gate: AUTH_TOKEN
    authRes     \* auth gate: what auth() returned

vars == <<ws, peers, role, meta, c2p, cache, up, task, nframes, budget, calls,
          ncalls, sent, endFrames, answer, hdr, debugNoAuth, authToken, authRes>>

brokerVars == <<ws, peers, role, meta, c2p, cache, up, task, nframes, calls,
                ncalls, sent, endFrames, answer>>

authVars == <<hdr, debugNoAuth, authToken, authRes>>

\* what no step of the broker changes
restVars == <<authVars, budget>>

\* ------------------------------------------------------------ auth gate

AUTH_TOKEN_COOKIE_NAME == "sigsvc_authtoken"
FLASK_SESSION_COOKIE_NAME == "session"
WS_CONN_ID_COOKIE_NAME == "sigsvc_wsconnid"

\* cookie names a handshake may carry ("auth-token" is the name the tests use)
CookieNames == {AUTH_TOKEN_COOKIE_NAME, FLASK_SESSION_COOKIE_NAME,
                WS_CONN_ID_COOKIE_NAME, "auth-token"}

\* cookie values: the shared secret, another token, and four session cookies:
\* well signed and fresh, well signed and too old, badly signed, and well
\* signed but without a _user_id (the session of a visitor not logged in)
CookieValues == {"tok", "dcba", "valid", "expired", ".abc", "anon"}

\* a Cookie header is a list of name=value pairs; the header may be absent
CookieLists == UNION {[1..n -> CookieNames \X CookieValues] : n \in 0..MaxCookies}
RequestHeaders == [present : BOOLEAN, cookies : CookieLists]

\* SimpleCookie.load: a later pair of the same name replaces an earlier one
InCookie(cookie, name) == \E i \in 1..Len(cookie) : cookie[i][1] = name

CookieValue(cookie, name) ==
    LET last == CHOOSE i \in 1..Len(cookie) :
                    /\ cookie[i][1] = name
                    /\ \A j \in 1..Len(cookie) : cookie[j][1] = name => j <= i
    IN  cookie[last][2]

\* get_user_id: URLSafeTimedSerializer.loads with max_age, then data["_user_id"]
get_user_id(session_cookie) ==
    CASE session_cookie = "valid"   -> "user"
      [] session_cookie = "expired" -> "SignatureExpired"
      [] session_cookie = "anon"    -> "KeyError"
      [] OTHER                      -> "BadSignature"

\* SignatureExpired is a subclass of BadSignature
IsBadSignature(r) == r \in {"BadSignature", "SignatureExpired"}

\* auth() returns None to let the handshake through, or an HTTP response
AuthAllow == <<0, "None">>
AuthPending == <<0, "pending">>
UNAUTHORIZED == 401
InvalidAuthToken == <<UNAUTHORIZED, "Invalid auth token\n">>
MissingAuthToken == <<UNAUTHORIZED, "Missing auth token\n">>
\* an exception that auth() does not catch leaves it
AuthRaised == <<0, "raised">>

\* an auth gate that lets a handshake without credentials through
auth_missing_allowed(request_headers) ==
    IF debugNoAuth THEN AuthAllow
    ELSE IF request_headers.present
    THEN LET cookie == request_headers.cookies IN
         IF InCookie(cookie, AUTH_TOKEN_COOKIE_NAME)
         THEN IF CookieValue(cookie, AUTH_TOKEN_COOKIE_NAME) = authToken
              THEN AuthAllow
              ELSE InvalidAuthToken
         ELSE IF InCookie(cookie, FLASK_SESSION_COOKIE_NAME)
         THEN LET user_id == get_user_id(CookieValue(cookie, FLASK_SESSION_COOKIE_NAME)) IN
              IF IsBadSignature(user_id) THEN InvalidAuthToken
              ELSE IF user_id = "KeyError" THEN AuthRaised
              ELSE AuthAllow
         ELSE AuthAllow
    ELSE MissingAuthToken

\* an auth gate that looks at the session cookie before the producer credential
auth_session_first(request_headers) ==
    IF debugNoAuth THEN AuthAllow
    ELSE IF request_headers.present
    THEN LET cookie == request_headers.cookies IN
         IF InCookie(cookie, FLASK_SESSION_COOKIE_NAME)
         THEN LET user_id == get_user_id(CookieValue(cookie, FLASK_SESSION_COOKIE_NAME)) IN
              IF IsBadSignature(user_id) THEN InvalidAuthToken
              ELSE IF user_id = "KeyError" THEN AuthRaised
              ELSE AuthAllow
         ELSE IF InCookie(cookie, AUTH_TOKEN_COOKIE_NAME)
         THEN IF CookieValue(cookie, AUTH_TOKEN_COOKIE_NAME) = authToken
              THEN AuthAllow
              ELSE InvalidAuthToken
         ELSE MissingAuthToken
    ELSE MissingAuthToken

\* auth(): the decision on a handshake, from its request headers
auth(request_headers) ==
    IF debugNoAuth THEN AuthAllow
    ELSE IF request_headers.present
    THEN LET cookie == request_headers.cookies IN
         IF InCookie(cookie, AUTH_TOKEN_COOKIE_NAME)
         THEN IF CookieValue(cookie, AUTH_TOKEN_COOKIE_NAME) = authToken
              THEN AuthAllow
              ELSE InvalidAuthToken
         ELSE IF InCookie(cookie, FLASK_SESSION_COOKIE_NAME)
         THEN LET user_id == get_user_id(CookieValue(cookie, FLASK_SESSION_COOKIE_NAME)) IN
              IF IsBadSignature(user_id) THEN InvalidAuthToken
              ELSE IF user_id = "KeyError" THEN AuthRaised
              ELSE AuthAllow
         ELSE MissingAuthToken
    ELSE MissingAuthToken


\* --------------------------------------------------------------- sessions

\* a Session of the cache (dto.Session): ws_conn.consumer_id,
\* ws_conn.producer_id and the local ending flag; ok = FALSE is "no entry"
NoSession == [ok |-> FALSE, cons |-> None, prod |-> None, ending |-> FALSE]

\* a session of the upstream service; ex = FALSE is "no such session"
NoUpstream == [ex |-> FALSE, cons |-> None, prod |-> None, st |-> None]

UnknownPeerException == "UnknownPeerException"

\* Session.other_peer_id
other_peer_id(session, peer_id) ==
    IF peer_id = session.cons THEN session.prod
    ELSE IF peer_id = session.prod THEN session.cons
    ELSE UnknownPeerException

\* SessionsManager.invalidate_cache
invalidate_cache(c, session_id) == [c EXCEPT ![session_id] = NoSession]

\* set_session_ending with the marking forgotten
set_session_ending_forgotten(c, session_id) == c

\* SessionsManager.set_session_ending
set_session_ending(c, session_id) ==
    IF c[session_id].ok THEN [c EXCEPT ![session_id].ending = TRUE] ELSE c

\* a get_session whose new entry never takes the ending flag over
from_sessiondc_unmarked(c, session_id, res) ==
    [ok |-> TRUE, cons |-> res.cons, prod |-> res.prod, ending |-> FALSE]

\* SessionsManager.get_session, after the upstream answered with session res:
\* the new entry keeps the ending flag of the entry it replaces
from_sessiondc(c, session_id, res) ==
    [ok |-> TRUE, cons |-> res.cons, prod |-> res.prod,
     ending |-> IF c[session_id].ok THEN c[session_id].ending ELSE FALSE]

\* the sessions the upstream lists for a consumer or for a producer
get_consumer_sessions(consumer_id) ==
    {s \in Sessions : up[s].ex /\ up[s].cons = consumer_id}

get_producer_sessions(producer_id) ==
    {s \in Sessions : up[s].ex /\ up[s].prod = producer_id}

\* error codes of errors.py
ERROR_REQUEST_VALIDATION == 1400
ERROR_SESSIONSVC == 1409
ERROR_UNKNOWN_PEER == 1404
ERROR_SESSIONSVC_SESSION_NOT_FOUND == 1404
ERROR_SIGSVC_OP == 1409
ERROR_SESSIONS_QUOTA_LIMIT_EXCEEDED == 1429

\* ------------------------------------------------------------------ tasks

\* a task that is not inside a handler; pc says where it waits
At(pc) == [pc |-> pc, sid |-> None, soft |-> FALSE, direct |-> FALSE,
           tgt |-> None, todo |-> {}, roles |-> {}]

Idle == At("idle")

L(p) == <<p, Loop>>
D(p) == <<p, Closed>>

\* a frame the broker sends: to whom, its type, the task that sends it (the
\* peer by and its context), and the session or error code it carries; body
\* holds the other fields of the frames that have some
Frame(to, type, by, ctx, sid, code) ==
    [to |-> to, type |-> type, by |-> by, ctx |-> ctx, sid |-> sid, code |-> code,
     body |-> <<>>, n |-> 1]

\* a frame from the read loop of by that carries body
FrameWith(to, type, by, body) ==
    [Frame(to, type, by, Loop, None, 0) EXCEPT !.body = body]

IsOpen(p) == ws[p] = "open"

\* no task has been resumed by an answer of the upstream in the last step
NoAnswer == [by |-> <<None, None>>, call |-> None, outcome |-> None]

\* The call of services/sessionsvc.py that task t awaited has returned in this
\* step.  outcome says how: "ok" (200; "found" for get_session, "created" for
\* create_session), "notFound" (get_session: 409 with code 1404, raised as
\* SessionNotFoundException), "quotaExceeded" (create_session), or "failed"
\* (any other status, a timeout or a transport error: SessionSvcException)
Answered(t, call, outcome) ==
    answer' = [by |-> t, call |-> call, outcome |-> outcome]

\* a step that is not the return of an upstream call
NotAnswered == answer' = NoAnswer

\* the outcomes that sessionsvc raises SessionSvcException for
FailureOutcomes == {"failed", "quotaExceeded"}

\* what a send that has waited for the transport of q does when the task is
\* resumed: it returns, or, when the WebSocket of q has closed meanwhile, it
\* may raise
SendReturns == "returns"
SendOutcomes(q) == IF IsOpen(q) THEN {SendReturns} ELSE {SendReturns, "raises"}

\* Peer.send: the frames sent once f has been sent too; a frame that has been
\* sent before is sent again as its next copy (n = 2, 3, ...)
Send(S, f) ==
    S \cup {[f EXCEPT !.n = 1 + Cardinality({g \in S : /\ g.type = f.type
                                                       /\ [g EXCEPT !.n = 1] = f})]}

\* a task between two iterations of the disconnect procedure's for loop has
\* not been suspended: nothing else runs until it reaches its next await
Running == \E t \in Tasks : task[t].pc = "next"

\* a read loop that takes the next frame while a handler is suspended
CanDispatchWhileBusy(p) ==
    /\ ~Running
    /\ task[L(p)].pc \notin {"none", "welcome", "ended"}
    /\ nframes < budget

\* the read loop of p can take the next frame (handler, line 241): a frame
\* that the client has sent; after the WebSocket has closed, one that was
\* received before and waits in the queue of the connection
CanDispatch(p) ==
    /\ nframes < budget
    /\ task[L(p)].pc = "idle"
    /\ ~Running

\* the dispatcher loop ends (break, or an exception leaves handler()): the
\* server closes the connection, which schedules the disconnect task
LoopEndsWs(p) == [ws EXCEPT ![p] = "closed"]

LoopEndsTask(p, tk) ==
    [tk EXCEPT ![L(p)] = At("ended"),
               ![D(p)] = IF IsOpen(p) THEN At("pending") ELSE @]


\* what a send on a closed WebSocket raises: ConnectionClosedError after an
\* abnormal closure, ConnectionClosedOK (an Exception to the dispatcher) after
\* a normal one; the close code is not part of the state
SendRaises == {"ConnectionClosedError", "Exception"}

\* a dispatcher that logs a BizException like any other exception
FinishSilently(t, exc, code, todo, S) ==
    LET p == t[1] IN
    IF t[2] = Loop
    THEN CASE exc = "ConnectionClosedError" ->
                /\ task' = LoopEndsTask(p, task)
                /\ ws' = LoopEndsWs(p)
                /\ sent' = S
           [] OTHER ->
                /\ task' = [task EXCEPT ![t] = Idle]
                /\ ws' = ws
                /\ sent' = S
    ELSE /\ task' = [task EXCEPT ![t] =
                        IF exc = "return"
                        THEN IF todo = {} THEN At("done")
                             ELSE [At("next") EXCEPT !.todo = todo]
                        ELSE [At("failed") EXCEPT !.todo = todo]]
         /\ ws' = ws
         /\ sent' = S

\* The handler that task t runs has returned or raised exc.  In a read loop
\* (handler, lines 271-280): a BizException is answered with an error frame,
\* and the task waits for that send (line 276); a ConnectionClosedError breaks
\* the loop; any other exception is logged and the loop waits for the next
\* frame; when the WebSocket of the peer is closed the send of the error frame
\* raises at once, out of handler(), and the loop is over.  In the disconnect
\* task a return goes on with the next session of the for loop and an
\* exception ends the task.
\* S is the set of frames sent so far, todo the sessions still to end.
Finish(t, exc, code, todo, S) ==
    LET p == t[1] IN
    IF t[2] = Loop
    THEN CASE exc = "BizException" /\ IsOpen(p) ->
                /\ task' = [task EXCEPT ![t] = At("err_send")]
                /\ ws' = ws
                /\ sent' = Send(S, Frame(p, "error", p, Loop, None, code))
           [] exc = "BizException" /\ ~IsOpen(p) ->
                /\ task' = LoopEndsTask(p, task)
                /\ ws' = ws
                /\ sent' = S
           [] exc = "ConnectionClosedError" ->
                /\ task' = LoopEndsTask(p, task)
                /\ ws' = LoopEndsWs(p)
                /\ sent' = S
           [] OTHER ->
                /\ task' = [task EXCEPT ![t] = Idle]
                /\ ws' = ws
                /\ sent' = S
    ELSE /\ task' = [task EXCEPT ![t] =
                        IF exc = "return"
                        THEN IF todo = {} THEN At("done")
                             ELSE [At("next") EXCEPT !.todo = todo]
                        ELSE [At("failed") EXCEPT !.todo = todo]]
         /\ ws' = ws
         /\ sent' = S

\* handler, line 276: the send of the error frame has returned and the loop
\* waits for the next frame, or it has raised inside the except clause and the
\* exception, whatever its class, leaves handler()
ErrorSent(p) ==
    /\ task[L(p)].pc = "err_send"
    /\ ~Running
    /\ \E outcome \in SendOutcomes(p) :
          IF outcome = SendReturns
          THEN /\ task' = [task EXCEPT ![L(p)] = Idle]
               /\ ws' = ws
          ELSE /\ task' = LoopEndsTask(p, task)
               /\ ws' = LoopEndsWs(p)
    /\ UNCHANGED <<peers, role, meta, c2p, cache, up, nframes, calls, ncalls,
                   sent, endFrames, restVars>>
    /\ NotAnswered

\* The handler that task t runs ends with the send of the frame f to q: the
\* frame is written and the task waits for the send; on a closed WebSocket
\* the send raises at once
SendLast(t, q, f, todo) ==
    IF IsOpen(q)
    THEN /\ sent' = Send(sent, f)
         /\ task' = [task EXCEPT ![t] = [At("send") EXCEPT !.tgt = q, !.todo = todo]]
         /\ ws' = ws
    ELSE \E exc \in SendRaises : Finish(t, exc, 0, todo, sent)

\* the last send of a handler has returned, and so does the handler, or it
\* has raised, when the WebSocket has closed while it waited
LastSendDone(t) ==
    LET r == task[t] IN
    /\ r.pc = "send"
    /\ ~Running
    /\ \E outcome \in SendOutcomes(r.tgt) :
          IF outcome = SendReturns
          THEN Finish(t, "return", 0, r.todo, sent)
          ELSE \E exc \in SendRaises : Finish(t, exc, 0, r.todo, sent)
    /\ UNCHANGED <<peers, role, meta, c2p, cache, up, nframes, calls, ncalls,
                   endFrames, restVars>>
    /\ NotAnswered

\* The handler that the read loop of p runs ends with the send of the frame f
\* to p itself
Reply(p, f) == SendLast(L(p), p, f, {})

\* handle_end_session, lines 121-123: the sessionEnded frame for the session
\* that has been ended is written to the requester and the task, still inside
\* handle_end_session for sid, waits for the send; on a closed WebSocket the
\* send raises at once
SendSessionEnded(t, sid, todo) ==
    LET p == t[1] IN
    IF IsOpen(p)
    THEN /\ sent' = Send(sent, Frame(p, "sessionEnded", p, t[2], sid, 0))
         /\ task' = [task EXCEPT ![t] = [At("send") EXCEPT !.tgt = p, !.todo = todo,
                                                           !.sid = sid]]
         /\ ws' = ws
    ELSE \E exc \in SendRaises : Finish(t, exc, 0, todo, sent)

\* ------------------------------------------------------------- endSession

\* handle_end_session, line 85: the call is direct when the peer is registered
IsDirect(p) == p \in peers

\* handle_end_session, line 94: nothing to end
NothingToEnd(session) == ~session.ok \/ session.ending

\* handle_end_session, lines 97 and 121: who gets a sessionEnded frame
WantsSessionEnded(p, direct) == direct /\ role[p] = CONSUMER

\* handle_connection_closed, line 75: the soft flag of a disconnect
SoftOnDisconnect(p) == role[p] = CONSUMER

\* a handler that goes on to its end without the upstream call
IssueEndSkipped(t, sid, soft, direct, todo) ==
    /\ UNCHANGED <<calls, ncalls>>
    /\ task' = [task EXCEPT ![t] = [pc |-> "es_up", sid |-> sid, soft |-> soft,
                                    direct |-> direct, tgt |-> None, todo |-> todo, roles |-> {}]]

\* handle_end_session, lines 115-120: the call that ends the session upstream
EndCall(soft) == IF soft THEN "pause_session" ELSE "close_session"

\* handle_end_session, lines 115-120: the upstream pause (soft) or close call
\* is issued and the task waits for the answer
IssueEnd(t, sid, soft, direct, todo) ==
    /\ calls' = calls \cup {[by |-> t[1], ctx |-> t[2], sid |-> sid,
                             kind |-> IF soft THEN "pause" ELSE "close"]}
    /\ ncalls' = [ncalls EXCEPT ![sid] = @ + 1]
    /\ task' = [task EXCEPT ![t] = [pc |-> "es_up", sid |-> sid, soft |-> soft,
                                    direct |-> direct, tgt |-> None, todo |-> todo, roles |-> {}]]

\* handle_end_session, lines 94-120, from the moment get_session has returned
\* (session is what it returned, NoSession for None, and c the cache it left)
\* up to the next await: the send of sessionEnded to the peer itself, the
\* send to the other peer, or the upstream call
EndWithSession(t, sid, soft, direct, todo, session, c) ==
    LET p == t[1]
    IN  IF NothingToEnd(session)
        THEN /\ cache' = c
             /\ UNCHANGED endFrames
             /\ IF WantsSessionEnded(p, direct) /\ IsOpen(p)
                THEN \* line 99: the task waits for the send of sessionEnded
                     /\ sent' = Send(sent, Frame(p, "sessionEnded", p, t[2], sid, 0))
                     /\ task' = [task EXCEPT ![t] =
                                    [pc |-> IF session.ok THEN "es_ended" ELSE "es_gone",
                                     sid |-> sid, soft |-> soft, direct |-> direct,
                                     tgt |-> None, todo |-> todo, roles |-> {}]]
                     /\ UNCHANGED <<calls, ncalls, ws>>
                ELSE IF WantsSessionEnded(p, direct) /\ session.ok
                THEN \* the send raises inside the try block; the except clause
                     \* logs it and the code after it ends the session
                     /\ IssueEnd(t, sid, soft, direct, todo)
                     /\ UNCHANGED <<ws, sent>>
                ELSE /\ Finish(t, "return", 0, todo, sent)
                     /\ UNCHANGED <<calls, ncalls>>
        ELSE LET other == other_peer_id(session, p) IN
             /\ cache' = set_session_ending(c, sid)
             /\ IF other \in peers /\ IsOpen(other)
                THEN /\ endFrames' = [endFrames EXCEPT ![other] = @ + 1]
                     /\ sent' = Send(sent, Frame(other, "endSession", p, t[2], sid, 0))
                     /\ task' = [task EXCEPT ![t] =
                                    [pc |-> "es_evict", sid |-> sid, soft |-> soft,
                                     direct |-> direct, tgt |-> other, todo |-> todo, roles |-> {}]]
                     /\ UNCHANGED <<calls, ncalls, ws>>
                ELSE \* no other peer, or an exception the except clause logs
                     /\ IssueEnd(t, sid, soft, direct, todo)
                     /\ UNCHANGED <<endFrames, sent, ws>>

\* handle_end_session, lines 84-93: entry, up to the first await
EndSessionEntry(t, sid, soft, todo) ==
    LET direct == IsDirect(t[1]) IN
    IF cache[sid].ok
    THEN EndWithSession(t, sid, soft, direct, todo, cache[sid], cache)
    ELSE /\ task' = [task EXCEPT ![t] = [pc |-> "es_get", sid |-> sid, soft |-> soft,
                                         direct |-> direct, tgt |-> None, todo |-> todo, roles |-> {}]]
         /\ UNCHANGED <<cache, endFrames, calls, ncalls, ws, sent>>

\* the read loop of p takes an endSession frame
handle_end_session(p, sid, soft) ==
    /\ CanDispatch(p)
    /\ nframes' = nframes + 1
    /\ EndSessionEntry(L(p), sid, soft, {})
    /\ UNCHANGED <<peers, role, meta, c2p, up, restVars>>
    /\ NotAnswered

\* get_session inside handle_end_session: the upstream answers with the
\* session, or with "not found"
EndSessionGotAnswer(t) ==
    LET r == task[t] IN
    /\ r.pc = "es_get"
    /\ ~Running
    /\ \/ /\ up[r.sid].ex
          /\ Answered(t, "get_session", "found")
          /\ EndWithSession(t, r.sid, r.soft, r.direct, r.todo,
                            from_sessiondc(cache, r.sid, up[r.sid]),
                            [cache EXCEPT ![r.sid] = from_sessiondc(cache, r.sid, up[r.sid])])
       \/ \* SessionNotFoundException: get_session returns None
          /\ ~up[r.sid].ex
          /\ Answered(t, "get_session", "notFound")
          /\ EndWithSession(t, r.sid, r.soft, r.direct, r.todo, NoSession, cache)
    /\ UNCHANGED <<peers, role, meta, c2p, up, nframes, restVars>>

\* get_session inside handle_end_session: the upstream call fails
EndSessionGotFailed(t) ==
    LET r == task[t] IN
    /\ r.pc = "es_get"
    /\ ~Running
    /\ \* SessionSvcException: logged by the except clause; the session
       \* variable is unbound and line 112 raises UnboundLocalError
       /\ Answered(t, "get_session", "failed")
       /\ Finish(t, "Exception", 0, r.todo, sent)
       /\ UNCHANGED <<cache, endFrames, calls, ncalls>>
    /\ UNCHANGED <<peers, role, meta, c2p, up, nframes, restVars>>

\* get_session inside handle_end_session: the upstream call returns
EndSessionGot(t) == EndSessionGotAnswer(t) \/ EndSessionGotFailed(t)

\* handle_end_session, lines 99-120: the send of sessionEnded for a session
\* that is gone (pc "es_gone": get_session returned None) or ending (pc
\* "es_ended") has returned, and so does the handler; or it has raised, the
\* except clause has logged it, and the handler returns at line 113 when there
\* is no session and goes on to the upstream call when there is one
SessionEndedSent(t) ==
    LET r == task[t] IN
    /\ r.pc \in {"es_ended", "es_gone"}
    /\ ~Running
    /\ \E outcome \in SendOutcomes(t[1]) :
          IF outcome # SendReturns /\ r.pc = "es_ended"
          THEN /\ IssueEnd(t, r.sid, r.soft, r.direct, r.todo)
               /\ UNCHANGED <<ws, sent>>
          ELSE /\ Finish(t, "return", 0, r.todo, sent)
               /\ UNCHANGED <<calls, ncalls>>
    /\ UNCHANGED <<peers, role, meta, c2p, cache, up, nframes, endFrames, restVars>>
    /\ NotAnswered

\* an eviction that empties the registry
EvictAll(registry, other) == {}

\* handle_end_session, line 109: del peers[other_peer_id] (a KeyError, when
\* the peer is gone already, is logged by the except clause)
Evict(registry, other) == registry \ {other}

\* handle_end_session, lines 108-120: the send to the other peer has returned
\* and the peer is evicted, or it has raised, the except clause has logged it
\* and the eviction is skipped; then the upstream call is issued
EndSessionEvict(t) ==
    LET r == task[t] IN
    /\ r.pc = "es_evict"
    /\ ~Running
    /\ \E outcome \in SendOutcomes(r.tgt) :
          peers' = IF outcome = SendReturns THEN Evict(peers, r.tgt) ELSE peers
    /\ IssueEnd(t, r.sid, r.soft, r.direct, r.todo)
    /\ UNCHANGED <<ws, role, meta, c2p, cache, up, nframes, sent, endFrames, restVars>>
    /\ NotAnswered

\* pause_session / close_session: the upstream has paused or closed the
\* session
EndSessionDoneOk(t) ==
    LET r == task[t]
        p == t[1]
    IN  /\ ~Running
        /\ r.pc = "es_up"
        /\ up[r.sid].ex
        /\ Answered(t, EndCall(r.soft), "ok")
        /\ up' = [up EXCEPT ![r.sid].st = IF r.soft THEN "paused" ELSE "closed"]
        /\ cache' = invalidate_cache(cache, r.sid)
        /\ IF WantsSessionEnded(p, r.direct)
           THEN SendSessionEnded(t, r.sid, r.todo)
           ELSE Finish(t, "return", 0, r.todo, sent)
        /\ UNCHANGED <<peers, role, meta, c2p, nframes, calls, ncalls, endFrames, restVars>>

\* pause_session / close_session: the upstream call fails
EndSessionDoneFailed(t) ==
    LET r == task[t] IN
    /\ r.pc = "es_up"
    /\ ~Running
    /\ \* SessionSvcException: the cache is not invalidated
       /\ Answered(t, EndCall(r.soft), "failed")
       /\ Finish(t, "BizException", ERROR_SESSIONSVC, r.todo, sent)
       /\ UNCHANGED <<up, cache>>
    /\ UNCHANGED <<peers, role, meta, c2p, nframes, calls, ncalls, endFrames, restVars>>

\* pause_session / close_session: the upstream call returns
EndSessionDone(t) == EndSessionDoneOk(t) \/ EndSessionDoneFailed(t)


\* ------------------------------------------------------------- disconnect

\* the WebSocket of p closes (the client goes away, or the network fails):
\* wait_closed() completes and its callback schedules the disconnect task
ConnectionCloses(p) ==
    /\ ~Running
    /\ IsOpen(p)
    /\ ws' = [ws EXCEPT ![p] = "closed"]
    /\ task' = [task EXCEPT ![D(p)] = At("pending")]
    /\ UNCHANGED <<peers, role, meta, c2p, cache, up, nframes, calls, ncalls,
                   sent, endFrames, restVars>>
    /\ NotAnswered

\* a first guard that lets every peer through
StillRegisteredUnchecked(p) == TRUE

\* handle_connection_closed, line 64: the first guard
StillRegistered(p) == p \in peers

\* handle_connection_closed, lines 63-71: up to the upstream listing of the
\* peer's sessions (get_peer_sessions raises for a peer without a role)
handle_connection_closed(p) ==
    /\ task[D(p)].pc = "pending"
    /\ ~Running
    /\ IF StillRegistered(p)
       THEN /\ peers' = peers \ {p}
            /\ task' = [task EXCEPT ![D(p)] =
                           IF role[p] \in PeerRole
                           THEN [At("list") EXCEPT !.roles = {role[p]}]
                           ELSE At("failed")]
       ELSE /\ task' = [task EXCEPT ![D(p)] = At("ignored")]
            /\ UNCHANGED peers
    /\ UNCHANGED <<ws, role, meta, c2p, cache, up, nframes, calls, ncalls,
                   sent, endFrames, restVars>>
    /\ NotAnswered

\* SessionsManager.get_peer_sessions: the list the upstream returns
get_peer_sessions(p) ==
    IF role[p] = CONSUMER THEN get_consumer_sessions(p) ELSE get_producer_sessions(p)

\* get_peer_sessions, lines 104-107: the listing it has asked the upstream
\* for, chosen by the role the peer had when it was called
ListedFor(p) ==
    IF task[D(p)].roles = {CONSUMER}
    THEN get_consumer_sessions(p)
    ELSE get_producer_sessions(p)

\* get_peer_sessions, lines 104-107: the upstream call it awaits
ListCall(p) ==
    IF task[D(p)].roles = {CONSUMER}
    THEN "get_consumer_sessions"
    ELSE "get_producer_sessions"

\* get_peer_sessions: the upstream answers with the list
ConnectionClosedListedOk(p) ==
    /\ task[D(p)].pc = "list"
    /\ ~Running
    /\ Answered(D(p), ListCall(p), "ok")
    /\ Finish(D(p), "return", 0, ListedFor(p), sent)
    /\ UNCHANGED <<peers, role, meta, c2p, cache, up, nframes, calls, ncalls,
                   endFrames, restVars>>

\* get_peer_sessions: the upstream call fails
ConnectionClosedListedFailed(p) ==
    /\ task[D(p)].pc = "list"
    /\ ~Running
    /\ Answered(D(p), ListCall(p), "failed")
    /\ Finish(D(p), "BizException", ERROR_SESSIONSVC, {}, sent)
    /\ UNCHANGED <<peers, role, meta, c2p, cache, up, nframes, calls, ncalls,
                   endFrames, restVars>>

\* get_peer_sessions: the upstream call returns
ConnectionClosedListed(p) == ConnectionClosedListedOk(p) \/ ConnectionClosedListedFailed(p)

\* handle_connection_closed, lines 72-75: the next iteration of the for loop
ConnectionClosedNext(p) ==
    /\ task[D(p)].pc = "next"
    /\ \E sid \in task[D(p)].todo :
          EndSessionEntry(D(p), sid, SoftOnDisconnect(p), task[D(p)].todo \ {sid})
    /\ UNCHANGED <<peers, role, meta, c2p, up, nframes, restVars>>
    /\ NotAnswered


\* ------------------------------------------------------------ peer (relay)

\* handle_peer_msg, lines 136-140, once the session is loaded
Relay(t, sid, session) ==
    LET p == t[1]
        other == other_peer_id(session, p)
    IN  IF other = UnknownPeerException
        THEN Finish(t, "BizException", ERROR_UNKNOWN_PEER, {}, sent)
        ELSE IF other \in peers
        THEN SendLast(t, other, Frame(other, "peer", p, Loop, sid, 0), {})
        ELSE Finish(t, "return", 0, {}, sent)

\* the read loop of p takes a peer frame naming session sid
handle_peer_msg(p, sid) ==
    /\ CanDispatch(p)
    /\ nframes' = nframes + 1
    /\ IF cache[sid].ok
       THEN Relay(L(p), sid, cache[sid])
       ELSE /\ task' = [task EXCEPT ![L(p)] = [At("pm_get") EXCEPT !.sid = sid]]
            /\ UNCHANGED <<ws, sent>>
    /\ UNCHANGED <<peers, role, meta, c2p, cache, up, calls, ncalls, endFrames, restVars>>
    /\ NotAnswered

\* get_session inside handle_peer_msg: the upstream answers
PeerMsgGot(p) ==
    LET r == task[L(p)] IN
    /\ r.pc = "pm_get"
    /\ ~Running
    /\ \/ /\ up[r.sid].ex
          /\ Answered(L(p), "get_session", "found")
          /\ cache' = [cache EXCEPT ![r.sid] = from_sessiondc(cache, r.sid, up[r.sid])]
          /\ Relay(L(p), r.sid, from_sessiondc(cache, r.sid, up[r.sid]))
       \/ \* session not found: dropped
          /\ ~up[r.sid].ex
          /\ Answered(L(p), "get_session", "notFound")
          /\ Finish(L(p), "return", 0, {}, sent)
          /\ UNCHANGED cache
       \/ \* SessionSvcException: logged, dropped
          /\ Answered(L(p), "get_session", "failed")
          /\ Finish(L(p), "return", 0, {}, sent)
          /\ UNCHANGED cache
    /\ UNCHANGED <<peers, role, meta, c2p, up, nframes, calls, ncalls, endFrames, restVars>>

\* ----------------------------------------------------------- startSession

\* Peer.ws_conn_id: the value of the sigsvc_wsconnid cookie of the connection
ws_conn_id(p) == <<WS_CONN_ID_COOKIE_NAME, p>>

\* StartSessionRequestDTO of handle_start_session: startSession{peerId =
\* consumer id, sessionId}, sent to the producer
StartSessionRequest(producer, p, sid) ==
    [Frame(producer, "startSession", p, Loop, sid, 0) EXCEPT !.body = <<p>>]

\* SessionStartedRequestDTO of handle_start_session: sessionStarted{peerId =
\* producer id, sessionId}, sent to the consumer
SessionStartedRequest(producer, p, sid) ==
    [Frame(p, "sessionStarted", p, Loop, sid, 0) EXCEPT !.body = <<producer>>]

\* the task of p waits for the send of startSession to the producer
StartSessionSending(p, sid, producer) ==
    [task EXCEPT ![L(p)] = [At("ss_send") EXCEPT !.sid = sid, !.tgt = producer]]

\* the consumer's frame sent first
StartSessionFramesConsumerFirst(p, sid, producer) ==
    IF IsOpen(p)
    THEN /\ sent' = Send(sent, SessionStartedRequest(producer, p, sid))
         /\ task' = StartSessionSending(p, sid, producer)
         /\ ws' = ws
    ELSE \E exc \in SendRaises : Finish(L(p), exc, 0, {}, sent)

\* handle_start_session, lines 151-153: the first of the two frames, the
\* producer's, is sent and the task waits for the send
StartSessionFrames(p, sid, producer) ==
    IF IsOpen(producer)
    THEN /\ sent' = Send(sent, StartSessionRequest(producer, p, sid))
         /\ task' = StartSessionSending(p, sid, producer)
         /\ ws' = ws
    ELSE \E exc \in SendRaises : Finish(L(p), exc, 0, {}, sent)

\* SessionsManager.start_session, lines 57-64: the ws_conn of the upstream
\* start call that the read loop of p is waiting for
StartSessionWsConn(p) ==
    [id |-> ws_conn_id(p), consumer_id |-> p, producer_id |-> task[L(p)].tgt]

\* the read loop of p takes a startSession frame: lines 147-150 and
\* SessionsManager.start_session up to the upstream call
handle_start_session(p, sid, producer) ==
    /\ CanDispatch(p)
    /\ nframes' = nframes + 1
    /\ IF producer \in peers
       THEN /\ cache' = invalidate_cache(cache, sid)
            /\ task' = [task EXCEPT ![L(p)] =
                           [At("ss_up") EXCEPT !.sid = sid, !.tgt = producer]]
            /\ UNCHANGED <<ws, sent>>
       ELSE /\ Finish(L(p), "BizException", ERROR_UNKNOWN_PEER, {}, sent)
            /\ UNCHANGED cache
    /\ UNCHANGED <<peers, role, meta, c2p, up, calls, ncalls, endFrames, restVars>>
    /\ NotAnswered

\* sessionsvc.start_session: the upstream answers; start_session goes on to
\* get_session, which returns at once when the session is in the cache
StartSessionStarted(p) ==
    LET r == task[L(p)] IN
    /\ r.pc = "ss_up"
    /\ ~Running
    /\ \/ /\ up[r.sid].ex
          /\ Answered(L(p), "start_session", "ok")
          /\ up' = [up EXCEPT ![r.sid] =
                       [ex |-> TRUE, cons |-> StartSessionWsConn(p).consumer_id,
                        prod |-> StartSessionWsConn(p).producer_id, st |-> "active"]]
          /\ IF cache[r.sid].ok
             THEN StartSessionFrames(p, r.sid, r.tgt)
             ELSE /\ task' = [task EXCEPT ![L(p)].pc = "ss_get"]
                  /\ UNCHANGED <<ws, sent>>
       \/ /\ Answered(L(p), "start_session", "failed")
          /\ Finish(L(p), "BizException", ERROR_SESSIONSVC, {}, sent)
          /\ UNCHANGED up
    /\ UNCHANGED <<peers, role, meta, c2p, cache, nframes, calls, ncalls, endFrames, restVars>>

\* get_session at the end of start_session: the upstream answers
StartSessionGot(p) ==
    LET r == task[L(p)] IN
    /\ r.pc = "ss_get"
    /\ ~Running
    /\ \/ /\ up[r.sid].ex
          /\ Answered(L(p), "get_session", "found")
          /\ cache' = [cache EXCEPT ![r.sid] = from_sessiondc(cache, r.sid, up[r.sid])]
          /\ StartSessionFrames(p, r.sid, r.tgt)
       \/ /\ Answered(L(p), "get_session", "failed")
          /\ Finish(L(p), "BizException", ERROR_SESSIONSVC, {}, sent)
          /\ UNCHANGED cache
    /\ UNCHANGED <<peers, role, meta, c2p, up, nframes, calls, ncalls, endFrames, restVars>>

\* handle_start_session, lines 154-156: the send to the producer has returned
\* and sessionStarted is sent to the consumer, the task waiting for that send;
\* or it has raised
StartSessionSent(p) ==
    LET r == task[L(p)] IN
    /\ r.pc = "ss_send"
    /\ ~Running
    /\ \E outcome \in SendOutcomes(r.tgt) :
          IF outcome = SendReturns
          THEN Reply(p, SessionStartedRequest(r.tgt, p, r.sid))
          ELSE \E exc \in SendRaises : Finish(L(p), exc, 0, {}, sent)
    /\ UNCHANGED <<peers, role, meta, c2p, cache, up, nframes, calls, ncalls,
                   endFrames, restVars>>
    /\ NotAnswered

\* ---------------------------------------------------------- setPeerStatus

\* a role lookup that tries "producer" before "listener"
RoleOfProducerFirst(roles) ==
    IF "producer" \in roles THEN PRODUCER
    ELSE IF "listener" \in roles THEN CONSUMER
    ELSE "RequestValidationException"

\* handle_set_peer_status, lines 184-196: the role a roles list gives
RoleOf(roles) ==
    IF "listener" \in roles THEN CONSUMER
    ELSE IF "producer" \in roles THEN PRODUCER
    ELSE "RequestValidationException"

\* PeerStatusResponseDTO(roles, meta, peerId), lines 177-183, sent to a peer
PeerStatusResponse(to, peerId, roles, consumerId) ==
    FrameWith(to, "peerStatusChanged", peerId, <<peerId, roles, consumerId>>)

\* the read loop of p takes a setPeerStatus frame with these roles and with
\* meta.consumerId = consumerId (None: meta has no such key)
handle_set_peer_status(p, roles, consumerId) ==
    LET new == RoleOf(roles)
        res == PeerStatusResponse(p, p, roles, consumerId)
    IN  /\ CanDispatch(p)
        /\ nframes' = nframes + 1
        /\ meta' = [meta EXCEPT ![p] = consumerId]
        /\ role' = [role EXCEPT ![p] = IF new \in PeerRole THEN new ELSE @]
        /\ c2p' = IF new = PRODUCER /\ consumerId # None
                  THEN [c2p EXCEPT ![consumerId] = p] ELSE c2p
        /\ IF new = CONSUMER
           THEN Reply(p, res)
           ELSE IF new = PRODUCER
           THEN IF consumerId # None /\ consumerId \in peers
                THEN IF IsOpen(consumerId)
                     THEN \* line 194: the task waits for the send to the consumer
                          /\ sent' = Send(sent, PeerStatusResponse(consumerId, p, roles, consumerId))
                          /\ task' = [task EXCEPT ![L(p)] =
                                         [At("ps_fwd") EXCEPT !.tgt = consumerId,
                                                              !.roles = roles]]
                          /\ ws' = ws
                     ELSE \E exc \in SendRaises : Finish(L(p), exc, 0, {}, sent)
                ELSE Reply(p, res)
           ELSE Finish(L(p), "BizException", ERROR_REQUEST_VALIDATION, {}, sent)
        /\ UNCHANGED <<peers, cache, up, calls, ncalls, endFrames, restVars>>
        /\ NotAnswered

\* handle_set_peer_status, lines 194-198: the send to the consumer has returned
\* and the confirmation is sent to the peer itself, the task waiting for that
\* send; or it has raised
PeerStatusForwarded(p) ==
    LET r == task[L(p)] IN
    /\ r.pc = "ps_fwd"
    /\ ~Running
    /\ \E outcome \in SendOutcomes(r.tgt) :
          IF outcome = SendReturns
          THEN Reply(p, PeerStatusResponse(p, p, r.roles, r.tgt))
          ELSE \E exc \in SendRaises : Finish(L(p), exc, 0, {}, sent)
    /\ UNCHANGED <<peers, role, meta, c2p, cache, up, nframes, calls, ncalls,
                   endFrames, restVars>>
    /\ NotAnswered


\* ------------------------------------------------------------------- list

\* ListResponseDTO: the producers it lists, each with its id and meta
ListResponse(to, producers) == FrameWith(to, "list", to, producers)

\* a list that answers with the directory entry without looking it up in the
\* registry
handle_list_unfiltered(p) ==
    /\ CanDispatch(p)
    /\ nframes' = nframes + 1
    /\ IF c2p[p] # None
       THEN Reply(p, ListResponse(p, <<<<c2p[p], meta[c2p[p]]>>>>))
       ELSE Reply(p, ListResponse(p, <<>>))
    /\ UNCHANGED <<peers, role, meta, c2p, cache, up, calls, ncalls, endFrames, restVars>>
    /\ NotAnswered

\* the read loop of p takes a list frame
handle_list(p) ==
    /\ CanDispatch(p)
    /\ nframes' = nframes + 1
    /\ IF c2p[p] # None
       THEN LET producer_id == c2p[p] IN
            IF producer_id \in peers
            THEN Reply(p, ListResponse(p, <<<<producer_id, meta[producer_id]>>>>))
            ELSE Finish(L(p), "return", 0, {}, sent)
       ELSE Reply(p, ListResponse(p, <<>>))
    /\ UNCHANGED <<peers, role, meta, c2p, cache, up, calls, ncalls, endFrames, restVars>>
    /\ NotAnswered

\* ---------------------------------------------------------- createSession

\* Peer.user_id (Peer.from_ws, lines 58-61): a connected with a session cookie
\* of user u1, b with the auth token and no session cookie
user_id(p) == IF p = "a" THEN "u1" ELSE None

\* the checks of create_session without the one of user_id
CreateSessionRefusedByRoleOnly(p) ==
    IF role[p] # CONSUMER THEN ERROR_SIGSVC_OP ELSE 0

\* SessionsManager.create_session, lines 40-43: the two checks; 0 when they
\* pass, else the code of the SigsvcOpException raised
CreateSessionRefused(p) ==
    IF role[p] # CONSUMER THEN ERROR_SIGSVC_OP
    ELSE IF user_id(p) = None THEN ERROR_SIGSVC_OP
    ELSE 0

\* SessionsManager.create_session, lines 44-51: the request of the upstream
\* create call
CreateSessionRequest(p) ==
    [user_id |-> user_id(p),
     ws_conn |-> [id |-> ws_conn_id(p), consumer_id |-> p]]

\* CreateSessionResponseDTO(session_id), line 203
CreateSessionResponse(p, sid) == Frame(p, "sessionCreated", p, Loop, sid, 0)

\* the read loop of p takes a createSession frame
handle_create_session(p) ==
    /\ CanDispatch(p)
    /\ nframes' = nframes + 1
    /\ IF CreateSessionRefused(p) = 0
       THEN /\ task' = [task EXCEPT ![L(p)] = At("cs_up")]
            /\ UNCHANGED <<ws, sent>>
       ELSE Finish(L(p), "BizException", CreateSessionRefused(p), {}, sent)
    /\ UNCHANGED <<peers, role, meta, c2p, cache, up, calls, ncalls, endFrames, restVars>>
    /\ NotAnswered

\* what the upstream answers to a create call: the session is created, the
\* sessions quota of the user is exceeded, or any other failure
CreateOutcomes == {"created", "quotaExceeded", "failed"}

\* sessionsvc.create_session, lines 30-37: every answer but 200 raises
\* SessionSvcException
CreateFailure(outcome) == ERROR_SESSIONSVC

\* sessionsvc.create_session: the upstream answers
CreateSessionDone(p, outcome) ==
    /\ task[L(p)].pc = "cs_up"
    /\ ~Running
    /\ Answered(L(p), "create_session", outcome)
    /\ IF outcome = "created"
       THEN \E sid \in Sessions :
              /\ ~up[sid].ex
              /\ up' = [up EXCEPT ![sid] =
                           [ex |-> TRUE,
                            cons |-> CreateSessionRequest(p).ws_conn.consumer_id,
                            prod |-> None, st |-> "pending"]]
              /\ Reply(p, CreateSessionResponse(p, sid))
       ELSE /\ Finish(L(p), "BizException", CreateFailure(outcome), {}, sent)
            /\ UNCHANGED up
    /\ UNCHANGED <<peers, role, meta, c2p, cache, nframes, calls, ncalls, endFrames, restVars>>

\* ------------------------------------------------------------- getSession

\* GetSessionResponseDTO(session), line 209: the session as get_session
\* returned it
GetSessionResponse(p, sid, session) ==
    [Frame(p, "session", p, Loop, sid, 0)
        EXCEPT !.body = <<session.cons, session.prod, session.ending>>]

\* line 211: the literal "{}"
EmptyObject(p) == Frame(p, "{}", p, Loop, None, 0)

\* a get_session that lets SessionNotFoundException through to the dispatcher
AnswerSessionOrRaise(p, sid, session) ==
    IF ~session.ok
    THEN Finish(L(p), "BizException", ERROR_SESSIONSVC_SESSION_NOT_FOUND, {}, sent)
    ELSE Reply(p, GetSessionResponse(p, sid, session))

\* handle_get_session, lines 208-211, once get_session has returned
AnswerSession(p, sid, session) ==
    Reply(p, IF session.ok THEN GetSessionResponse(p, sid, session)
                           ELSE EmptyObject(p))

\* the read loop of p takes a getSession frame
handle_get_session(p, sid) ==
    /\ CanDispatch(p)
    /\ nframes' = nframes + 1
    /\ IF cache[sid].ok
       THEN AnswerSession(p, sid, cache[sid])
       ELSE /\ task' = [task EXCEPT ![L(p)] = [At("gs_get") EXCEPT !.sid = sid]]
            /\ UNCHANGED <<ws, sent>>
    /\ UNCHANGED <<peers, role, meta, c2p, cache, up, calls, ncalls, endFrames, restVars>>
    /\ NotAnswered

\* what the upstream answers to a get call (sessionsvc.get_session, lines
\* 92-97): the session, 409 with code 1404, or any other failure
GetOutcomes == {"found", "notFound", "failed"}

\* get_session inside handle_get_session: the upstream answers
GetSessionGot(p, outcome) ==
    LET r == task[L(p)] IN
    /\ r.pc = "gs_get"
    /\ ~Running
    /\ Answered(L(p), "get_session", outcome)
    /\ CASE outcome = "found" ->
               /\ up[r.sid].ex
               /\ cache' = [cache EXCEPT ![r.sid] = from_sessiondc(cache, r.sid, up[r.sid])]
               /\ AnswerSession(p, r.sid, from_sessiondc(cache, r.sid, up[r.sid]))
         [] outcome = "notFound" ->
               \* SessionNotFoundException: get_session returns None
               /\ ~up[r.sid].ex
               /\ AnswerSession(p, r.sid, NoSession)
               /\ UNCHANGED cache
         [] OTHER ->
               \* SessionSvcException
               /\ Finish(L(p), "BizException", ERROR_SESSIONSVC, {}, sent)
               /\ UNCHANGED cache
    /\ UNCHANGED <<peers, role, meta, c2p, up, nframes, calls, ncalls, endFrames, restVars>>

\* ------------------------------------------------------------ getSessions

\* the sessions the upstream lists for a user: those created for a consumer
\* connection of that user
get_user_sessions(uid) ==
    {s \in Sessions : up[s].ex /\ up[s].cons \in Peers /\ user_id(up[s].cons) = uid}

\* handle_get_sessions, lines 217-222: the listing asked of the upstream
SessionsOf(p) ==
    IF role[p] = CONSUMER THEN get_user_sessions(user_id(p))
    ELSE get_producer_sessions(p)

\* handle_get_sessions, lines 217-220: the upstream call it awaits
SessionsCall(p) ==
    IF role[p] = CONSUMER THEN "get_user_sessions" ELSE "get_producer_sessions"

\* GetSessionsResponseDTO(sessions), line 223
GetSessionsResponse(p, sessions) ==
    [Frame(p, "sessionsList", p, Loop, None, 0) EXCEPT !.body = <<sessions>>]

\* the read loop of p takes a getSessions frame
handle_get_sessions(p) ==
    /\ CanDispatch(p)
    /\ nframes' = nframes + 1
    /\ IF role[p] \in PeerRole
       THEN /\ task' = [task EXCEPT ![L(p)] = At("gss_up")]
            /\ UNCHANGED <<ws, sent>>
       ELSE Finish(L(p), "BizException", ERROR_REQUEST_VALIDATION, {}, sent)
    /\ UNCHANGED <<peers, role, meta, c2p, cache, up, calls, ncalls, endFrames, restVars>>
    /\ NotAnswered

\* get_user_sessions / get_producer_sessions: the upstream answers
GetSessionsListed(p) ==
    /\ task[L(p)].pc = "gss_up"
    /\ ~Running
    /\ \/ /\ Answered(L(p), SessionsCall(p), "ok")
          /\ Reply(p, GetSessionsResponse(p, SessionsOf(p)))
       \/ /\ Answered(L(p), SessionsCall(p), "failed")
          /\ Finish(L(p), "BizException", ERROR_SESSIONSVC, {}, sent)
    /\ UNCHANGED <<peers, role, meta, c2p, cache, up, nframes, calls, ncalls,
                   endFrames, restVars>>

\* ------------------------------------------------------ submitWebRtcStats

\* the read loop of p takes a submitWebRtcStats frame: the stats are posted
handle_submit_webrtc_stats(p, sid) ==
    /\ CanDispatch(p)
    /\ nframes' = nframes + 1
    /\ task' = [task EXCEPT ![L(p)] = [At("st_up") EXCEPT !.sid = sid]]
    /\ UNCHANGED <<ws, sent, peers, role, meta, c2p, cache, up, calls, ncalls,
                   endFrames, restVars>>
    /\ NotAnswered

\* sessionsvc.submit_webrtc_stats: the upstream answers
SubmitWebRtcStatsDone(p) ==
    /\ task[L(p)].pc = "st_up"
    /\ ~Running
    /\ \/ /\ Answered(L(p), "submit_webrtc_stats", "ok")
          /\ Finish(L(p), "return", 0, {}, sent)
       \/ /\ Answered(L(p), "submit_webrtc_stats", "failed")
          /\ Finish(L(p), "BizException", ERROR_SESSIONSVC, {}, sent)
    /\ UNCHANGED <<peers, role, meta, c2p, cache, up, nframes, calls, ncalls,
                   endFrames, restVars>>

\* --------------------------------------------------------- unrouted frames

\* The frames the dispatcher routes to no handler: a type that is none of the
\* routed request types, a type that is not a string, no type field at all
UnroutedFrames == {"unknownType", "nonStringType", "noType"}

\* handler, lines 243-270: msg["type"] raises KeyError when there is no type;
\* any other type that matches no branch raises RequestValidationException
TypeLookup(frame) ==
    IF frame = "noType" THEN "Exception" ELSE "BizException"

\* the read loop of p takes a frame that is routed to no handler
handle_unrouted(p, frame) ==
    /\ CanDispatch(p)
    /\ nframes' = nframes + 1
    /\ Finish(L(p), TypeLookup(frame), ERROR_REQUEST_VALIDATION, {}, sent)
    /\ UNCHANGED <<peers, role, meta, c2p, cache, up, calls, ncalls, endFrames, restVars>>
    /\ NotAnswered

\* ---------------------------------------------------------------- connect

\* WelcomeResponseDTO(peerId), line 239
WelcomeResponse(p) == Frame(p, "welcome", p, Loop, None, 0)

\* handler, lines 232-239: a client connects; its peer is registered under a
\* fresh id, the callback of the closed WebSocket is set up and the welcome
\* frame is sent; the task waits for the send
Connect(p) ==
    /\ ~Running
    /\ ws[p] = "new"
    /\ ws' = [ws EXCEPT ![p] = "open"]
    /\ peers' = peers \cup {p}
    /\ sent' = Send(sent, WelcomeResponse(p))
    /\ task' = [task EXCEPT ![L(p)] = At("welcome")]
    /\ UNCHANGED <<role, meta, c2p, cache, up, nframes, calls, ncalls, endFrames, restVars>>
    /\ NotAnswered

\* handler, lines 239-241: the send of the welcome frame has returned and the
\* read loop starts, or it has raised and the exception leaves handler()
Welcomed(p) ==
    /\ task[L(p)].pc = "welcome"
    /\ ~Running
    /\ \E outcome \in SendOutcomes(p) :
          task' = [task EXCEPT ![L(p)] =
                      IF outcome = SendReturns THEN Idle ELSE At("ended")]
    /\ UNCHANGED <<ws, peers, role, meta, c2p, cache, up, nframes, calls, ncalls,
                   sent, endFrames, restVars>>
    /\ NotAnswered

\* handler, line 241: the connection of p is closed and its queue holds no
\* frame: the async for is over (or raises, after an abnormal closure) and
\* handler() ends
LoopEnds(p) ==
    /\ task[L(p)].pc = "idle"
    /\ ~Running
    /\ ws[p] = "closed"
    /\ task' = [task EXCEPT ![L(p)] = At("ended")]
    /\ UNCHANGED <<ws, peers, role, meta, c2p, cache, up, nframes, calls, ncalls,
                   sent, endFrames, restVars>>
    /\ NotAnswered

\* ----------------------------------------------------------- specification

\* the roles lists and the consumerId values of a setPeerStatus frame
RolesLists == {{"listener"}, {"producer"}, {"listener", "producer"}, {}}

\* The upstream sessions a broker can find: none; one created for a consumer
\* (createSession) and not started; one started with a producer
UpstreamSessions ==
    {NoUpstream}
    \cup {[ex |-> TRUE, cons |-> c, prod |-> None, st |-> "pending"] : c \in Peers}
    \cup {[ex |-> TRUE, cons |-> c, prod |-> q, st |-> "active"] : c \in Peers, q \in Peers}

\* a has announced itself as a consumer; b as a producer, as a consumer, or
\* not yet
InitialRoles ==
    {[p \in Peers |-> IF p = "a" THEN CONSUMER ELSE r] : r \in {PRODUCER, CONSUMER, None}}

\* the consumerId a producer has announced in its meta (None: no such key)
AnnouncedConsumers(roles) ==
    IF roles["b"] = PRODUCER THEN {None, "a"} ELSE {None}

\* setPeerStatus, lines 176 and 190-192: the meta and the producer directory
\* left by the announcement of a producer b with meta.consumerId = c
AnnouncedMeta(c) == [p \in Peers |-> IF p = "b" THEN c ELSE None]
AnnouncedDirectory(c) == [p \in Peers |-> IF p = c THEN "b" ELSE None]

AuthIdle ==
    /\ hdr = [present |-> FALSE, cookies |-> <<>>]
    /\ debugNoAuth = FALSE
    /\ authToken = "tok"
    /\ authRes = AuthPending

\* the connections at the start: a is connected; b is connected, or, when it
\* has announced no role, may still be about to connect
InitialConnections(roles) ==
    {[p \in Peers |-> "open"]}
    \cup IF roles["b"] = None
         THEN {[p \in Peers |-> IF p = "b" THEN "new" ELSE "open"]}
         ELSE {}

\* the id of a connection is a fresh uuid4 (Peer.from_ws): no upstream session
\* names a peer that has not connected yet
NamesConnectedOnly(sessions, connections) ==
    \A s \in Sessions :
        sessions[s].ex =>
            \A q \in {sessions[s].cons, sessions[s].prod} \cap Peers :
                connections[q] # "new"

\* The peers are connected (handler, lines 232-239: registered, welcomed) and
\* have announced a role or not, or b has not connected yet; nothing is
\* cached, no handler is running.
Init ==
    /\ role \in InitialRoles
    /\ ws \in InitialConnections(role)
    /\ peers = {p \in Peers : ws[p] = "open"}
    /\ \E c \in AnnouncedConsumers(role) :
          /\ meta = AnnouncedMeta(c)
          /\ c2p = AnnouncedDirectory(c)
    /\ cache = [s \in Sessions |-> NoSession]
    /\ up \in [Sessions -> UpstreamSessions]
    /\ NamesConnectedOnly(up, ws)
    /\ task = [t \in Tasks |->
                  IF t[2] = Loop /\ ws[t[1]] = "open" THEN Idle ELSE At("none")]
    /\ nframes = 0
    /\ budget = MaxFrames
    /\ calls = {}
    /\ ncalls = [s \in Sessions |-> 0]
    /\ sent = {}
    /\ endFrames = [p \in Peers |-> 0]
    /\ answer = NoAnswer
    /\ AuthIdle

\* the steps of the connections the broker has: a frame is taken, an upstream
\* call or a send returns, a WebSocket closes, a disconnect procedure goes on
Serving ==
    \/ \E p \in Peers : ConnectionCloses(p)
    \/ \E p \in Peers : handle_connection_closed(p)
    \/ \E p \in Peers : ConnectionClosedListed(p)
    \/ \E p \in Peers : ConnectionClosedNext(p)
    \/ \E p \in Peers, sid \in Sessions, soft \in BOOLEAN : handle_end_session(p, sid, soft)
    \/ \E t \in Tasks : EndSessionGot(t)
    \/ \E t \in Tasks : SessionEndedSent(t)
    \/ \E t \in Tasks : EndSessionEvict(t)
    \/ \E t \in Tasks : EndSessionDone(t)
    \/ \E p \in Peers, sid \in Sessions : handle_peer_msg(p, sid)
    \/ \E p \in Peers : PeerMsgGot(p)
    \/ \E p \in Peers, sid \in Sessions, q \in Peers : handle_start_session(p, sid, q)
    \/ \E p \in Peers : StartSessionStarted(p)
    \/ \E p \in Peers : StartSessionGot(p)
    \/ \E p \in Peers : StartSessionSent(p)
    \/ \E p \in Peers, roles \in RolesLists, c \in Peers \cup {None} :
          handle_set_peer_status(p, roles, c)
    \/ \E p \in Peers : PeerStatusForwarded(p)
    \/ \E p \in Peers : handle_list(p)
    \/ \E p \in Peers : handle_create_session(p)
    \/ \E p \in Peers, outcome \in CreateOutcomes : CreateSessionDone(p, outcome)
    \/ \E p \in Peers, sid \in Sessions : handle_get_session(p, sid)
    \/ \E p \in Peers, outcome \in GetOutcomes : GetSessionGot(p, outcome)
    \/ \E p \in Peers : handle_get_sessions(p)
    \/ \E p \in Peers : GetSessionsListed(p)
    \/ \E p \in Peers, sid \in Sessions : handle_submit_webrtc_stats(p, sid)
    \/ \E p \in Peers : SubmitWebRtcStatsDone(p)
    \/ \E p \in Peers, frame \in UnroutedFrames : handle_unrouted(p, frame)
    \/ \E t \in Tasks : LastSendDone(t)
    \/ \E p \in Peers : ErrorSent(p)
    \/ \E p \in Peers : LoopEnds(p)

\* a client connects, or the broker serves the connections it has
Next ==
    \/ \E p \in Peers : Connect(p)
    \/ \E p \in Peers : Welcomed(p)
    \/ Serving

Spec == Init /\ [][Next]_vars

\* The broker with its event loop running: the callback of a closed WebSocket
\* (handler, line 237) is run, and a disconnect task that has not reached an
\* await goes on.
LiveSpec ==
    /\ Spec
    /\ \A p \in Peers : WF_vars(handle_connection_closed(p))
    /\ \A p \in Peers : WF_vars(ConnectionClosedNext(p))

\* One established session: a is the consumer and b the producer announced
\* for it, the upstream has their session active, and the clients send up to
\* MaxFramesInOrder frames.
OrderInit ==
    /\ ws = [p \in Peers |-> "open"]
    /\ peers = Peers
    /\ role = [p \in Peers |-> IF p = "a" THEN CONSUMER ELSE PRODUCER]
    /\ meta = AnnouncedMeta("a")
    /\ c2p = AnnouncedDirectory("a")
    /\ cache = [s \in Sessions |-> NoSession]
    /\ up = [s \in Sessions |-> [ex |-> TRUE, cons |-> "a", prod |-> "b", st |-> "active"]]
    /\ task = [t \in Tasks |-> IF t[2] = Loop THEN Idle ELSE At("none")]
    /\ nframes = 0
    /\ budget = MaxFramesInOrder
    /\ calls = {}
    /\ ncalls = [s \in Sessions |-> 0]
    /\ sent = {}
    /\ endFrames = [p \in Peers |-> 0]
    /\ answer = NoAnswer
    /\ AuthIdle

\* a client or the network closes a connection, while fewer than
\* MaxClosesInOrder connections are closed
OrderConnectionCloses(p) ==
    /\ Cardinality({q \in Peers : ws[q] = "closed"}) < MaxClosesInOrder
    /\ ConnectionCloses(p)

\* the steps of Serving, with the connections lost bounded
OrderNext ==
    \/ \E p \in Peers : OrderConnectionCloses(p)
    \/ \E p \in Peers : handle_connection_closed(p)
    \/ \E p \in Peers : ConnectionClosedListed(p)
    \/ \E p \in Peers : ConnectionClosedNext(p)
    \/ \E p \in Peers, sid \in Sessions, soft \in BOOLEAN : handle_end_session(p, sid, soft)
    \/ \E t \in Tasks : EndSessionGot(t)
    \/ \E t \in Tasks : SessionEndedSent(t)
    \/ \E t \in Tasks : EndSessionEvict(t)
    \/ \E t \in Tasks : EndSessionDone(t)
    \/ \E p \in Peers, sid \in Sessions : handle_peer_msg(p, sid)
    \/ \E p \in Peers : PeerMsgGot(p)
    \/ \E p \in Peers, sid \in Sessions, q \in Peers : handle_start_session(p, sid, q)
    \/ \E p \in Peers : StartSessionStarted(p)
    \/ \E p \in Peers : StartSessionGot(p)
    \/ \E p \in Peers : StartSessionSent(p)
    \/ \E p \in Peers, roles \in RolesLists, c \in Peers \cup {None} :
          handle_set_peer_status(p, roles, c)
    \/ \E p \in Peers : PeerStatusForwarded(p)
    \/ \E p \in Peers : handle_list(p)
    \/ \E p \in Peers : handle_create_session(p)
    \/ \E p \in Peers, outcome \in CreateOutcomes : CreateSessionDone(p, outcome)
    \/ \E p \in Peers, sid \in Sessions : handle_get_session(p, sid)
    \/ \E p \in Peers, outcome \in GetOutcomes : GetSessionGot(p, outcome)
    \/ \E p \in Peers : handle_get_sessions(p)
    \/ \E p \in Peers : GetSessionsListed(p)
    \/ \E p \in Peers, sid \in Sessions : handle_submit_webrtc_stats(p, sid)
    \/ \E p \in Peers : SubmitWebRtcStatsDone(p)
    \/ \E p \in Peers, frame \in UnroutedFrames : handle_unrouted(p, frame)
    \/ \E t \in Tasks : LastSendDone(t)
    \/ \E p \in Peers : ErrorSent(p)
    \/ \E p \in Peers : LoopEnds(p)

\* both peers are connected: no connection is left to accept
OrderSpec == OrderInit /\ [][OrderNext]_vars

\* the auth gate alone: one handshake, with any Cookie header
AuthInit ==
    /\ hdr \in RequestHeaders
    /\ debugNoAuth \in BOOLEAN
    /\ authToken \in {"tok", None}
    /\ authRes = AuthPending
    /\ ws = [p \in Peers |-> "open"]
    /\ peers = {}
    /\ role = [p \in Peers |-> None]
    /\ meta = [p \in Peers |-> None]
    /\ c2p = [p \in Peers |-> None]
    /\ cache = [s \in Sessions |-> NoSession]
    /\ up = [s \in Sessions |-> NoUpstream]
    /\ task = [t \in Tasks |-> IF t[2] = Loop THEN Idle ELSE At("none")]
    /\ nframes = 0
    /\ budget = MaxFrames
    /\ calls = {}
    /\ ncalls = [s \in Sessions |-> 0]
    /\ sent = {}
    /\ endFrames = [p \in Peers |-> 0]
    /\ answer = NoAnswer

\* main.process_request: the handshake is decided
process_request ==
    /\ authRes = AuthPending
    /\ authRes' = auth(hdr)
    /\ UNCHANGED <<hdr, debugNoAuth, authToken, budget, brokerVars>>

AuthSpec == AuthInit /\ [][process_request]_vars


\* ----------------------------------------------------------------- claims

\* the frames of one type sent in a step
NewFrames(type) == {f \in sent' \ sent : f.type = type}

\* the first copy of a frame: the frame without its count of repetitions
FirstCopy(f) == [f EXCEPT !.n = 1]

\* C1: session termination is at most once: the two parties of a session never
\* both get a pause or close call issued for it; the teardown attempt of the
\* other peer, concurrent or later, issues no second call.
C1_TerminationAtMostOnce ==
    \A x \in calls, y \in calls :
        (x.sid = y.sid /\ {x.by, y.by} = {up[x.sid].cons, up[x.sid].prod})
            => x.by = y.by

\* C2: relay correctness: a peer frame from S naming session X is forwarded to
\* at most one peer, which is registered and is X.other_peer_id(S), a party of
\* X and never S itself; when X is loaded and S is neither party, nothing is
\* forwarded and S (its WebSocket being open) gets the UnknownPeer error.
C2_RelayCorrectness ==
    [][\A p \in Peers, sid \in Sessions :
         (handle_peer_msg(p, sid) \/ (PeerMsgGot(p) /\ task[L(p)].sid = sid)) =>
            LET X == cache'[sid] IN
            /\ Cardinality(NewFrames("peer")) <= 1
            /\ \A f \in NewFrames("peer") :
                  /\ f.by = p /\ f.sid = sid
                  /\ f.to \in peers
                  /\ X.ok /\ f.to = other_peer_id(X, p)
                  /\ f.to \in {X.cons, X.prod}
                  /\ f.to # p
            /\ (cache[sid].ok /\ handle_peer_msg(p, sid)
                  /\ other_peer_id(cache[sid], p) = UnknownPeerException) =>
                  /\ NewFrames("peer") = {}
                  /\ IsOpen(p) =>
                        \E f \in NewFrames("error") :
                            FirstCopy(f) = Frame(p, "error", p, Loop, None, ERROR_UNKNOWN_PEER)
      ]_vars

\* the session get_session returns to a handler that waited for the upstream
\* (it keeps the ending flag of the cache entry it replaces)
SessionGot(sid) ==
    IF up[sid].ex THEN from_sessiondc(cache, sid, up[sid]) ELSE NoSession

\* the session get_session hands to the end-session handler of task t when
\* that handler goes on in this step: the cached one at entry, the upstream's
\* answer for a handler that waited for it
SessionInHand(t, sid) ==
    IF task[t].pc = "es_get" THEN SessionGot(sid) ELSE cache[sid]

\* task t enters the state pc in this step
Enters(t, pc) == task[t].pc # pc /\ task'[t].pc = pc

\* C3: within one endSession handler the side effects come in the order
\* (i) the cached session is marked ending, (ii) the other peer is sent the
\* endSession frame and removed from the registry, (iii) the upstream
\* pause/close is issued: when the frame is sent the session is marked and no
\* call has been issued; a call is issued either after the frame was sent,
\* with the other peer out of the registry (or with its WebSocket closed: the
\* send has raised and the eviction is skipped), or with the session marked
\* and, for a session found not ending, no other peer to notify.  (The handler
\* of a session found ending issues a call only when the send of its
\* sessionEnded frame has raised.)
C3_EndSessionOrder ==
    [][\A t \in Tasks :
         /\ Enters(t, "es_evict") =>
               /\ cache'[task'[t].sid].ok /\ cache'[task'[t].sid].ending
               /\ UNCHANGED <<calls, ncalls, peers>>
         /\ Enters(t, "es_up") =>
               \/ /\ task[t].pc = "es_evict"
                  /\ task[t].tgt \notin peers' \/ ~IsOpen(task[t].tgt)
                  /\ \E f \in sent : /\ f.type = "endSession" /\ f.to = task[t].tgt
                                     /\ f.by = t[1] /\ f.ctx = t[2]
                                     /\ f.sid = task[t].sid
                  /\ task[t].sid = task'[t].sid
               \/ /\ task[t].pc = "es_ended"
                  /\ ~IsOpen(t[1])
                  /\ \E f \in sent : /\ f.type = "sessionEnded" /\ f.to = t[1]
                                     /\ f.by = t[1] /\ f.sid = task[t].sid
               \/ /\ task[t].pc \notin {"es_evict", "es_ended"}
                  /\ cache'[task'[t].sid].ok /\ cache'[task'[t].sid].ending
                  /\ LET session == SessionInHand(t, task'[t].sid)
                         other == other_peer_id(session, t[1])
                     IN  ~session.ending => ~(other \in peers /\ IsOpen(other))
      ]_vars

\* C3 witness: a handler has sent the endSession frame to the other peer,
\* evicted it and issued the upstream call
C3_Witness ==
    \E t \in Tasks :
        /\ task[t].pc = "es_up"
        /\ \E f \in sent : f.type = "endSession" /\ f.by = t[1] /\ f.ctx = t[2]
                           /\ f.to # t[1] /\ f.to \notin peers
        /\ \E c \in calls : c.by = t[1] /\ c.ctx = t[2]

\* the handler states in which an end-session invocation is suspended
EndSessionPcs == {"es_get", "es_ended", "es_gone", "es_evict", "es_up"}

\* C4: the disconnect procedure of a registered peer ends the sessions the
\* upstream lists for it (the consumer listing for a consumer, the producer
\* listing otherwise), each with soft = (role = Consumer): a session of the
\* consumer listing is ended softly, with a pause call, and a session of the
\* producer listing is ended hard, with a close call.
C4_DisconnectSoftByRole ==
    [][\A p \in Peers :
         /\ Enters(D(p), "list") => task'[D(p)].roles = {role[p]}
         /\ (task[D(p)].pc = "list" /\ task'[D(p)].pc \in {"next", "done"}) =>
               task'[D(p)].todo = IF task[D(p)].roles = {CONSUMER}
                                  THEN get_consumer_sessions(p)
                                  ELSE get_producer_sessions(p)
         /\ (task[D(p)].pc = "next" /\ task'[D(p)].pc \in EndSessionPcs) =>
               /\ task'[D(p)].sid \in task[D(p)].todo
               /\ task'[D(p)].soft = (role[p] = CONSUMER)
               /\ task'[D(p)].sid \in IF task'[D(p)].soft
                                       THEN get_consumer_sessions(p)
                                       ELSE get_producer_sessions(p)
               /\ ~task'[D(p)].direct
         /\ (task[D(p)].pc = "next" /\ task'[D(p)].pc \in {"next", "done"}) =>
               \E sid \in task[D(p)].todo :
                   /\ task'[D(p)].todo = task[D(p)].todo \ {sid}
                   /\ cache[sid].ok /\ cache[sid].ending
         /\ \A c \in calls' \ calls :
               (c.by = p /\ c.ctx = Closed) =>
                   c.kind = IF c.sid \in get_consumer_sessions(p)
                            THEN "pause" ELSE "close"
      ]_vars

\* C5: the disconnect procedure is triggered once per peer, when its WebSocket
\* closes; run for a peer that is not in the registry it returns at once and
\* leaves the registry, the producer directory, the session cache and the
\* upstream alone.
C5_DisconnectIdempotent ==
    [][\A p \in Peers :
         /\ Enters(D(p), "pending") => task[D(p)].pc = "none" /\ ~IsOpen(p)'
         /\ (task[D(p)].pc = "pending" /\ task'[D(p)].pc # "pending" /\ p \notin peers) =>
               /\ task'[D(p)] = At("ignored")
               /\ UNCHANGED <<peers, c2p, cache, calls, ncalls, up>>
         /\ task[D(p)].pc = "ignored" => task'[D(p)].pc = "ignored"
      ]_vars

\* C5 witness: the disconnect procedure has run for a peer that another
\* peer's endSession had evicted
C5_Witness ==
    \E p \in Peers :
        /\ task[D(p)].pc = "ignored"
        /\ \E f \in sent : f.type = "endSession" /\ f.to = p /\ f.by # p

\* C6: role immutability: a role once set to Producer or Consumer is not
\* changed by any later setPeerStatus.
C6_RoleImmutability ==
    [][\A p \in Peers : role[p] \in PeerRole => role'[p] = role[p]]_vars

\* the read loop of p takes an endSession frame
EndSessionFrameTaken(p) ==
    \E sid \in Sessions, soft \in BOOLEAN : handle_end_session(p, sid, soft)

\* every sessionEnded frame sent in this step goes to the sender of the
\* endSession request being handled, a consumer that was registered when its
\* read loop took the request; when it is the ack for a session that is
\* missing or already ending, no upstream call is issued with it
SessionEndedFrames ==
    \A f \in NewFrames("sessionEnded") :
        LET t == <<f.by, f.ctx>> IN
        /\ f.to = f.by
        /\ f.ctx = Loop
        /\ role[f.by] = CONSUMER
        /\ \/ task[t].pc = "es_up" /\ task[t].direct /\ task[t].sid = f.sid
           \/ /\ task[t].pc = "es_get" /\ task[t].direct /\ task[t].sid = f.sid
              /\ NothingToEnd(SessionGot(f.sid))
              /\ UNCHANGED <<calls, ncalls>>
           \/ /\ task[t].pc = "idle" /\ f.by \in peers
              /\ EndSessionFrameTaken(f.by)
              /\ NothingToEnd(cache[f.sid])
              /\ UNCHANGED <<calls, ncalls>>

\* a direct consumer endSession that finds its session missing or already
\* ending issues no upstream pause or close, neither when it finds it so nor
\* when the send of its ack is over
NothingToEndNoCall ==
    \A p \in Peers :
        role[p] = CONSUMER =>
            /\ (task[L(p)].pc = "es_get" /\ task'[L(p)].pc # "es_get"
                  /\ task[L(p)].direct /\ NothingToEnd(SessionGot(task[L(p)].sid))) =>
                  UNCHANGED <<calls, ncalls>>
            /\ \A sid \in Sessions :
                  (EndSessionFrameTaken(p) /\ p \in peers /\ cache[sid].ok
                     /\ NothingToEnd(cache[sid])) =>
                  UNCHANGED <<calls, ncalls>>
            /\ (task[L(p)].pc \in {"es_ended", "es_gone"}
                  /\ task'[L(p)] # task[L(p)]) =>
                  UNCHANGED <<calls, ncalls>>

\* C7: a sessionEnded frame goes only to the sender of the endSession request
\* being handled, which was registered when the request was taken and is a
\* consumer; a disconnect sends none; a direct consumer endSession on a session
\* that is missing or already ending gets the ack without any upstream pause or
\* close being issued.
C7_SessionEndedOnlyToDirectConsumer ==
    [][SessionEndedFrames /\ NothingToEndNoCall]_vars

\* the part of C7 that holds: where and to whom sessionEnded frames are sent
SessionEndedOnlyToDirectConsumer == [][SessionEndedFrames]_vars

\* task t gets the session of its end-session invocation in this step (from
\* the cache at entry, or from the upstream) and goes on with it
GoesOnWith(t, session) ==
    \/ /\ task[t].pc \in {"idle", "next"}
       /\ task'[t].pc \in {"es_evict", "es_up"}
       /\ session = cache[task'[t].sid]
    \/ /\ task[t].pc = "es_get"
       /\ task'[t].pc \in {"es_evict", "es_up"}
       /\ session = from_sessiondc(cache, task[t].sid, up[task[t].sid])

\* The other peer of an ended session is notified once and evicted.  When a
\* handler goes on with a session that exists, is not ending, and whose other
\* peer is to be notified, it sends that peer one endSession frame; its next
\* step removes the peer from the registry, where it does not come back (only
\* a new connection enters the registry); no other step sends an endSession
\* frame; and the disconnect procedure of a peer that is out of the registry
\* changes nothing.  With open, only a peer whose WebSocket is open, and stays
\* open while the frame is sent, counts as one to be notified.
NotifiedOnceAndEvicted(open) ==
    /\ \A t \in Tasks, session \in {cache[s] : s \in Sessions}
                                  \cup {from_sessiondc(cache, s, up[s]) : s \in Sessions} :
          LET other == other_peer_id(session, t[1]) IN
          (GoesOnWith(t, session) /\ session.ok /\ ~session.ending
             /\ other \in peers /\ (open => IsOpen(other))) =>
              /\ task'[t].pc = "es_evict" /\ task'[t].tgt = other
              /\ {FirstCopy(f) : f \in NewFrames("endSession")} =
                    {Frame(other, "endSession", t[1], t[2], task'[t].sid, 0)}
              /\ endFrames' = [endFrames EXCEPT ![other] = @ + 1]
    /\ \A t \in Tasks :
          /\ Enters(t, "es_evict") <=> \E f \in NewFrames("endSession") : <<f.by, f.ctx>> = t
          /\ (task[t].pc = "es_evict" /\ task'[t] # task[t]) =>
                 \/ task[t].tgt \notin peers'
                 \/ open /\ ~IsOpen(task[t].tgt)
    /\ UNCHANGED endFrames \/ \E t \in Tasks : Enters(t, "es_evict")
    /\ \A q \in peers' \ peers : Connect(q)
    /\ \A q \in Peers :
          (task[D(q)].pc = "pending" /\ task'[D(q)].pc # "pending" /\ q \notin peers) =>
              UNCHANGED <<peers, calls, ncalls>>

\* C8: when endSession is handled for an existing, not yet ending session whose
\* other peer is in the registry, that peer gets exactly one endSession frame
\* and is out of the registry once the handler has finished; its own
\* disconnect procedure is then a no-op.
C8_OtherPeerEvicted == [][NotifiedOnceAndEvicted(FALSE)]_vars

\* the same holds for an other peer that is in the registry with its
\* WebSocket open: a send to a closed WebSocket raises, and the handler then
\* skips the eviction
LiveOtherPeerEvicted == [][NotifiedOnceAndEvicted(TRUE)]_vars

\* the read loop of p dispatches a request frame to its handler: it takes the
\* frame, which nframes counts, and enters one of the handlers
Dispatches(p) ==
    /\ nframes' # nframes
    /\ \/ \E sid \in Sessions, soft \in BOOLEAN : handle_end_session(p, sid, soft)
       \/ \E sid \in Sessions : handle_peer_msg(p, sid)
       \/ \E sid \in Sessions, q \in Peers : handle_start_session(p, sid, q)
       \/ \E roles \in RolesLists, c \in Peers \cup {None} : handle_set_peer_status(p, roles, c)
       \/ handle_list(p)
       \/ handle_create_session(p)
       \/ \E sid \in Sessions : handle_get_session(p, sid)
       \/ handle_get_sessions(p)
       \/ \E sid \in Sessions : handle_submit_webrtc_stats(p, sid)
       \/ \E frame \in UnroutedFrames : handle_unrouted(p, frame)

\* p has been evicted: it has connected and is out of the registry, and it is
\* not its own disconnect procedure that has removed it
Evicted(p) ==
    /\ ws[p] # "new"
    /\ p \notin peers
    /\ task[D(p)].pc \in {"none", "pending", "ignored"}

\* C9: no request frame received from a peer after its eviction from the
\* registry is dispatched to a handler.
C9_NoDispatchAfterEviction ==
    [][\A p \in Peers : Dispatches(p) => ~Evicted(p)]_vars

\* the handshake has been decided for a Cookie header that holds the producer
\* credential, with DEBUG_NO_AUTH unset
ProducerCredentialDecided ==
    /\ authRes # AuthPending
    /\ ~debugNoAuth
    /\ hdr.present
    /\ InCookie(hdr.cookies, AUTH_TOKEN_COOKIE_NAME)

\* C10: with DEBUG_NO_AUTH unset, a cookie jar that holds sigsvc_authtoken is
\* decided on that cookie alone, whatever session cookie comes with it: allow
\* when its value is the configured AUTH_TOKEN, 401 "Invalid auth token\n"
\* otherwise.
C10_ProducerCredentialPrecedence ==
    ProducerCredentialDecided =>
        authRes = IF CookieValue(hdr.cookies, AUTH_TOKEN_COOKIE_NAME) = authToken
                  THEN AuthAllow
                  ELSE InvalidAuthToken

\* C10 witness: a handshake with a wrong sigsvc_authtoken and a valid session
\* cookie has been rejected
C10_Witness ==
    /\ ProducerCredentialDecided
    /\ InCookie(hdr.cookies, FLASK_SESSION_COOKIE_NAME)
    /\ get_user_id(CookieValue(hdr.cookies, FLASK_SESSION_COOKIE_NAME)) = "user"
    /\ CookieValue(hdr.cookies, AUTH_TOKEN_COOKIE_NAME) # authToken
    /\ authRes = InvalidAuthToken

\* the cookie name the auth tests present the producer token under
TEST_AUTH_TOKEN_COOKIE_NAME == "auth-token"

\* the handshake has been decided, with DEBUG_NO_AUTH unset, for a request
\* that has a Cookie header
CookiesDecided ==
    /\ authRes # AuthPending
    /\ ~debugNoAuth
    /\ hdr.present

\* C11: as the auth tests assert, a handshake whose Cookie header carries the
\* producer token under the name auth-token is decided on that cookie: allow
\* when its value is the configured AUTH_TOKEN, 401 "Invalid auth token\n"
\* for any other value.
C11_TestAuthTokenCookie ==
    (CookiesDecided /\ InCookie(hdr.cookies, TEST_AUTH_TOKEN_COOKIE_NAME)) =>
        authRes = IF CookieValue(hdr.cookies, TEST_AUTH_TOKEN_COOKIE_NAME) = authToken
                  THEN AuthAllow
                  ELSE InvalidAuthToken

\* the cookie verifier accepts the session cookie: its signature is good and
\* its age within FLASK_PERMANENT_SESSION_LIFETIME
VerifierAccepts(session_cookie) == ~IsBadSignature(get_user_id(session_cookie))

\* C12: with DEBUG_NO_AUTH unset and no sigsvc_authtoken cookie, a handshake
\* with a session cookie is allowed iff the cookie verifier accepts the
\* cookie; a badly signed or expired one gets 401 "Invalid auth token\n";
\* every outcome of the verifier is either allow or 401.
C12_ConsumerCredential ==
    (/\ CookiesDecided
     /\ ~InCookie(hdr.cookies, AUTH_TOKEN_COOKIE_NAME)
     /\ InCookie(hdr.cookies, FLASK_SESSION_COOKIE_NAME)) =>
        LET session_cookie == CookieValue(hdr.cookies, FLASK_SESSION_COOKIE_NAME) IN
        /\ authRes = AuthAllow <=> VerifierAccepts(session_cookie)
        /\ ~VerifierAccepts(session_cookie) => authRes = InvalidAuthToken
        /\ authRes \in {AuthAllow, InvalidAuthToken}

\* the handshake presents one of the two credentials
PresentsCredential ==
    /\ hdr.present
    /\ \/ InCookie(hdr.cookies, AUTH_TOKEN_COOKIE_NAME)
       \/ InCookie(hdr.cookies, FLASK_SESSION_COOKIE_NAME)

\* C13: with DEBUG_NO_AUTH unset, a handshake without a Cookie header, or with
\* neither sigsvc_authtoken nor session in its cookie jar, gets 401 "Missing
\* auth token\n"; no handshake is allowed without one of the two credentials;
\* with DEBUG_NO_AUTH set every handshake is allowed.
C13_NoCredential ==
    authRes # AuthPending =>
        /\ debugNoAuth => authRes = AuthAllow
        /\ (~debugNoAuth /\ ~PresentsCredential) => authRes = MissingAuthToken
        /\ (~debugNoAuth /\ authRes = AuthAllow) => PresentsCredential

\* C13 witness: a handshake whose cookie jar holds cookies, none of them a
\* credential, has been rejected as missing its token
C13_Witness ==
    /\ CookiesDecided
    /\ Len(hdr.cookies) > 0
    /\ ~PresentsCredential
    /\ authRes = MissingAuthToken

\* the error frame the dispatcher answers a BizException of p's handler with
ErrorResponse(p, code) == Frame(p, "error", p, Loop, None, code)

\* the codes of the classified errors
BizCodes == {ERROR_REQUEST_VALIDATION, ERROR_UNKNOWN_PEER, ERROR_SESSIONSVC}

\* The handler of the frame that p's read loop takes in this step raises the
\* BizException with this code before its first await: an unrouted type, a
\* setPeerStatus without a known role, a startSession for an unregistered
\* producer, a peer frame for a cached session that p is no party of
RaisesAtOnce(p, code) ==
    \/ /\ code = ERROR_REQUEST_VALIDATION
       /\ \/ \E frame \in UnroutedFrames \ {"noType"} : handle_unrouted(p, frame)
          \/ \E roles \in RolesLists, c \in Peers \cup {None} :
                RoleOf(roles) \notin PeerRole /\ handle_set_peer_status(p, roles, c)
          \/ role[p] \notin PeerRole /\ handle_get_sessions(p)
    \/ /\ code = ERROR_SIGSVC_OP
       /\ CreateSessionRefused(p) # 0
       /\ handle_create_session(p)
    \/ /\ code = ERROR_UNKNOWN_PEER
       /\ \/ \E sid \in Sessions, q \in Peers :
                q \notin peers /\ handle_start_session(p, sid, q)
          \/ \E sid \in Sessions :
                /\ cache[sid].ok
                /\ other_peer_id(cache[sid], p) = UnknownPeerException
                /\ handle_peer_msg(p, sid)

\* The states in which a read loop waits for an upstream call whose failure
\* reaches the dispatcher as a SessionSvcException: the calls of
\* createSession, getSession, startSession (the start call and the closing
\* get_session), getSessions and submitWebRtcStats, and the pause or close
\* call of endSession.  (A failure of the get_session of a peer frame or of an
\* endSession is caught inside the handler, lines 110 and 133.)
SurfacingPcs == {"cs_up", "gs_get", "ss_up", "ss_get", "gss_up", "st_up", "es_up"}

\* The handler that p's read loop runs raises the BizException with this code
\* in this step, resumed by an answer of the upstream: a SessionSvcException
\* for an upstream call that has failed, the UnknownPeerException of
\* other_peer_id for the session that get_session has just loaded for a peer
\* frame of p, which is no party of it
RaisesAfterUpstream(p, code) ==
    \/ /\ code = ERROR_SESSIONSVC
       /\ task[L(p)].pc \in SurfacingPcs
       /\ answer'.by = L(p)
       /\ answer'.outcome \in FailureOutcomes
    \/ /\ code = ERROR_UNKNOWN_PEER
       /\ task[L(p)].pc = "pm_get"
       /\ Answered(L(p), "get_session", "found")
       /\ other_peer_id(SessionGot(task[L(p)].sid), p) = UnknownPeerException

\* the handler that p's read loop runs raises the BizException with this code
\* in this step
Raises(p, code) == RaisesAtOnce(p, code) \/ RaisesAfterUpstream(p, code)

\* C14: when a handler raises a BizException (RequestValidation 1400,
\* UnknownPeer 1404, SigsvcOp 1409, SessionSvc 1409), before its first await
\* or after an upstream call, while a frame of a connected peer is processed,
\* the sender gets exactly one error frame with that error's code and stays
\* in the registry as it was, and no error frame is sent for anything else;
\* when the send of that frame is over, its read loop is ready for the next
\* frame; the read loop ends only with a closed WebSocket: by the
\* connection-closed error of a send (the error frame of a frame taken from
\* the queue of a closed connection is such a send, and so is one that waits
\* while the connection closes), or when the connection of the peer is closed
\* and its queue is empty.
C14_DispatcherErrorPolicy ==
    [][\A p \in Peers :
         /\ \A code \in BizCodes :
               Raises(p, code) =>
                   IF IsOpen(p)
                   THEN sent' = Send(sent, ErrorResponse(p, code))
                   ELSE Enters(L(p), "ended") /\ UNCHANGED sent
         /\ \A f \in NewFrames("error") :
               f.by = p =>
                   /\ NewFrames("error") = {f}
                   /\ FirstCopy(f) = ErrorResponse(p, f.code) /\ f.code \in BizCodes
                   /\ Raises(p, f.code)
                   /\ task[L(p)].pc # "idle" \/ nframes' = nframes + 1
                   /\ task'[L(p)] = At("err_send")
                   /\ IsOpen(p) /\ IsOpen(p)'
                   /\ UNCHANGED peers
         /\ (task[L(p)].pc = "err_send" /\ task'[L(p)] # task[L(p)]) =>
               /\ UNCHANGED <<sent, peers>>
               /\ IF IsOpen(p)
                  THEN task'[L(p)] = Idle /\ IsOpen(p)'
                  ELSE task'[L(p)] \in {Idle, At("ended")}
         /\ Enters(L(p), "ended") =>
               /\ NewFrames("error") = {}
               /\ \E q \in Peers : ~IsOpen(q)
               /\ LoopEnds(p) => ~IsOpen(p)
      ]_vars

\* C14 witness: a frame of a peer was answered with an error frame; its read
\* loop went on and took the peer's next frame, whose upstream call has just
\* failed (SessionSvcException), and the peer, still registered and
\* connected, has been sent a second error frame
C14_Witness ==
    \E p \in peers :
        /\ IsOpen(p)
        /\ nframes = 2
        /\ answer.by = L(p)
        /\ answer.outcome = "failed"
        /\ task[L(p)] = At("err_send")
        /\ Cardinality({f \in sent : f.type = "error" /\ f.to = p}) = 2

\* C15: a frame without a string type field, or with a type that is none of
\* the routed request types, sent by a connected peer, is answered with an
\* error frame of code 1400, changes no shared state, and the read loop goes
\* on with the next frame once that frame is sent.
C15_UnroutedFrameRejected ==
    [][\A p \in Peers, frame \in UnroutedFrames :
         (handle_unrouted(p, frame) /\ IsOpen(p)) =>
             /\ sent' = Send(sent, ErrorResponse(p, ERROR_REQUEST_VALIDATION))
             /\ UNCHANGED <<peers, role, meta, c2p, cache, up, calls, ncalls>>
             /\ task'[L(p)] = At("err_send") /\ IsOpen(p)'
      ]_vars

\* C16: a list request of a connected peer gets exactly one list response:
\* the one producer entry {id, meta} when the producer directory maps the
\* requester to a producer that is in the registry, an empty producers list
\* in every other case.
C16_ListAnswered ==
    [][\A p \in Peers :
         (handle_list(p) /\ IsOpen(p)) =>
             sent' = Send(sent, ListResponse(p, IF c2p[p] # None /\ c2p[p] \in peers
                                 THEN <<<<c2p[p], meta[c2p[p]]>>>>
                                 ELSE <<>>))
      ]_vars

\* the setPeerStatus requests: the roles and meta.consumerId they carry
StatusRequests == RolesLists \X (Peers \cup {None})

\* the step sends p the echo of its setPeerStatus with these roles and this
\* meta.consumerId, the last frame of the handler
Echoed(p, roles, consumerId) ==
    \E f \in NewFrames("peerStatusChanged") :
        /\ FirstCopy(f) = PeerStatusResponse(p, p, roles, consumerId)
        /\ task'[L(p)].pc = "send"

\* C17: every setPeerStatus request of a connected peer is answered with a
\* peerStatusChanged echo to the originator, carrying its peerId and the
\* requested roles and meta, whatever the roles list holds and whether or not
\* a consumer was notified: the handler sends it at once, or first sends the
\* consumer its frame and sends the echo when that send is over.
C17_StatusAlwaysEchoed ==
    [][\A p \in Peers :
         IsOpen(p) =>
             /\ \A req \in StatusRequests :
                   handle_set_peer_status(p, req[1], req[2]) =>
                       \/ Echoed(p, req[1], req[2])
                       \/ /\ task'[L(p)].pc = "ps_fwd"
                          /\ task'[L(p)].roles = req[1]
                          /\ task'[L(p)].tgt = req[2]
             /\ (task[L(p)].pc = "ps_fwd" /\ task'[L(p)] # task[L(p)]) =>
                   Echoed(p, task[L(p)].roles, task[L(p)].tgt)
      ]_vars

\* A setPeerStatus of p with "producer" and not "listener" in its roles and
\* meta.consumerId = c leaves consumers_to_producers[c] = p, and c, when it
\* is to be notified, gets the peerStatusChanged frame with p's peerId; one
\* with "listener" in its roles leaves the directory alone and sends frames to
\* p only.  With open, only a registered consumer whose WebSocket is open is
\* to be notified; without, every registered consumer.
DirectoryWrittenConsumerNotified(open) ==
    \A p \in Peers, req \in StatusRequests :
        LET roles == req[1]
            c == req[2]
        IN  handle_set_peer_status(p, roles, c) =>
              /\ ("producer" \in roles /\ "listener" \notin roles /\ c # None) =>
                    /\ c2p'[c] = p
                    /\ \A d \in Peers \ {c} : c2p'[d] = c2p[d]
                    /\ (c \in peers /\ (open => IsOpen(c))) =>
                          \E f \in NewFrames("peerStatusChanged") :
                              FirstCopy(f) = PeerStatusResponse(c, p, roles, c)
              /\ "listener" \in roles =>
                    /\ UNCHANGED c2p
                    /\ \A f \in sent' \ sent : f.to = p

\* C18: a producer's setPeerStatus with meta.consumerId = c writes the
\* directory entry of c and, if c is in the registry, c receives the
\* peerStatusChanged frame; a listener's setPeerStatus never writes the
\* directory and notifies no other peer.
C18_ProducerAnnounced == [][DirectoryWrittenConsumerNotified(FALSE)]_vars

\* C18, amended: the same, with the frame received by a consumer c that is in
\* the registry with its WebSocket open (a send to a closed WebSocket raises).
C18_ProducerAnnouncedToLiveConsumer == [][DirectoryWrittenConsumerNotified(TRUE)]_vars

\* C18 witness: a producer has announced itself for another peer, which is in
\* the directory and has got the producer's peerStatusChanged frame
C18_Witness ==
    \E p \in Peers : \E c \in Peers \ {p} :
        /\ c2p[c] = p
        /\ role[p] = PRODUCER
        /\ \E f \in sent : f.type = "peerStatusChanged" /\ f.to = c /\ f.by = p
                           /\ f.body[1] = p

\* the startSession requests: the sessionId and peerId they carry
StartRequests == Sessions \X Peers

\* the upstream start call of the read loop of p succeeds in this step
StartSucceeds(p) ==
    task[L(p)].pc = "ss_up" /\ Answered(L(p), "start_session", "ok")

\* the upstream start call of the read loop of p fails in this step
StartFails(p) ==
    task[L(p)].pc = "ss_up" /\ Answered(L(p), "start_session", "failed")

\* the upstream start call of the read loop of p succeeds in this step, or
\* has succeeded before (start_session is at its closing get_session)
UpstreamStarted(p) == StartSucceeds(p) \/ task[L(p)].pc = "ss_get"

\* C19: a startSession of p naming a peer that is not in the registry is
\* answered with error 1404 to p (when p's WebSocket is open), with no
\* upstream call and no other frame; one naming a registered producer issues
\* the upstream start call with ws_conn {id = p's ws_conn_id, consumer_id = p,
\* producer_id = peerId} and sends nothing yet; startSession{peerId = p,
\* sessionId} is sent to the producer only once that call has succeeded, and
\* sessionStarted{peerId = producer, sessionId} to p only after the send of
\* the producer's frame has returned; when the upstream start fails neither
\* frame is sent, and p gets the error 1409.
C19_StartSessionProtocol ==
    /\ [][/\ \A p \in Peers, req \in StartRequests :
               handle_start_session(p, req[1], req[2]) =>
                   IF req[2] \in peers
                   THEN /\ task'[L(p)].pc = "ss_up"
                        /\ task'[L(p)].sid = req[1]
                        /\ StartSessionWsConn(p)' =
                              [id |-> ws_conn_id(p), consumer_id |-> p,
                               producer_id |-> req[2]]
                        /\ UNCHANGED <<sent, up>>
                   ELSE /\ IF IsOpen(p)
                           THEN /\ sent' = Send(sent, ErrorResponse(p, ERROR_UNKNOWN_PEER))
                                /\ task'[L(p)] = At("err_send")
                           ELSE UNCHANGED sent /\ Enters(L(p), "ended")
                        /\ UNCHANGED up
          /\ \A f \in NewFrames("startSession") :
               LET r == task[L(f.by)] IN
               /\ f.ctx = Loop
               /\ UpstreamStarted(f.by)
               /\ FirstCopy(f) = StartSessionRequest(r.tgt, f.by, r.sid)
               /\ NewFrames("sessionStarted") = {}
               /\ task'[L(f.by)].pc = "ss_send"
          /\ \A f \in NewFrames("sessionStarted") :
               LET r == task[L(f.by)] IN
               /\ f.ctx = Loop
               /\ r.pc = "ss_send"
               /\ FirstCopy(f) = SessionStartedRequest(r.tgt, f.by, r.sid)
               /\ task'[L(f.by)].pc = "send"
          /\ \A p \in Peers :
               StartSucceeds(p) =>
                   up'[task[L(p)].sid] =
                       [ex |-> TRUE, cons |-> p, prod |-> task[L(p)].tgt, st |-> "active"]
          /\ \A p \in Peers :
               StartFails(p) =>
                   /\ NewFrames("startSession") = {}
                   /\ NewFrames("sessionStarted") = {}
                   /\ IF IsOpen(p)
                      THEN /\ sent' = Send(sent, ErrorResponse(p, ERROR_SESSIONSVC))
                           /\ task'[L(p)] = At("err_send")
                      ELSE UNCHANGED sent /\ Enters(L(p), "ended")
                   /\ UNCHANGED up
          /\ \A p \in Peers :
               (task[L(p)].pc = "ss_get" /\ Answered(L(p), "get_session", "failed")) =>
                   /\ NewFrames("startSession") = {}
                   /\ NewFrames("sessionStarted") = {}
         ]_vars
    /\ [](\A f \in sent :
            f.type = "sessionStarted" =>
                /\ f.to = f.by
                /\ [StartSessionRequest(f.body[1], f.by, f.sid) EXCEPT !.n = f.n] \in sent)

\* C19 witness: a consumer has started a session with another peer: the
\* upstream has the session active between the two, both frames are sent and
\* the handler has returned
C19_Witness ==
    \E p \in Peers, sid \in Sessions :
        \E q \in Peers \ {p} :
            /\ up[sid] = [ex |-> TRUE, cons |-> p, prod |-> q, st |-> "active"]
            /\ StartSessionRequest(q, p, sid) \in sent
            /\ SessionStartedRequest(q, p, sid) \in sent
            /\ task[L(p)] = Idle

\* C20: the caller of startSession must be the consumer: the upstream start
\* call is issued, and the startSession and sessionStarted frames are sent,
\* only for a requester whose role is Consumer.
C20_StartSessionByConsumerOnly ==
    [][/\ \A p \in Peers :
            (task[L(p)].pc # "ss_up" /\ task'[L(p)].pc = "ss_up") =>
                role[p] = CONSUMER
       /\ \A f \in NewFrames("startSession") \cup NewFrames("sessionStarted") :
            role[f.by] = CONSUMER
      ]_vars

\* C21: createSession issues the upstream create call only for a requester
\* with role Consumer and a user_id, with user_id = peer.user_id and ws_conn
\* {id = peer.ws_conn_id, consumer_id = peer.id}; any other requester gets an
\* error frame with code 1409 (its WebSocket being open), with no upstream
\* call and no sessionCreated; the session cache is left unchanged in every
\* case.
C21_CreateSessionGuarded ==
    [][/\ \A p \in Peers :
            handle_create_session(p) =>
                /\ UNCHANGED <<cache, up>>
                /\ IF role[p] = CONSUMER /\ user_id(p) # None
                   THEN /\ task'[L(p)].pc = "cs_up"
                        /\ CreateSessionRequest(p).user_id = user_id(p)
                        /\ CreateSessionRequest(p).ws_conn =
                              [id |-> ws_conn_id(p), consumer_id |-> p]
                        /\ UNCHANGED sent
                   ELSE IF IsOpen(p)
                        THEN /\ task'[L(p)] = At("err_send")
                             /\ sent' = Send(sent, ErrorResponse(p, ERROR_SIGSVC_OP))
                        ELSE Enters(L(p), "ended") /\ UNCHANGED sent
       /\ \A p \in Peers :
            (task[L(p)].pc = "cs_up" \/ task'[L(p)].pc = "cs_up") =>
                /\ role[p] = CONSUMER
                /\ user_id(p) # None
                /\ (task'[L(p)] # task[L(p)] => UNCHANGED cache)
       /\ \A f \in NewFrames("sessionCreated") :
            /\ task[L(f.by)].pc = "cs_up"
            /\ FirstCopy(f) = CreateSessionResponse(f.by, f.sid)
            /\ ~up[f.sid].ex
            /\ up'[f.sid] = [ex |-> TRUE, cons |-> f.by, prod |-> None, st |-> "pending"]
      ]_vars

\* C21 witness: a consumer with a user_id has had a session created upstream
\* for its connection and has got the sessionCreated frame
C21_Witness ==
    \E p \in Peers, sid \in Sessions :
        /\ role[p] = CONSUMER
        /\ user_id(p) # None
        /\ up[sid] = [ex |-> TRUE, cons |-> p, prod |-> None, st |-> "pending"]
        /\ CreateSessionResponse(p, sid) \in sent
        /\ cache[sid] = NoSession

\* the get_session that task t awaits at pc is answered in this step with
\* SessionNotFound (409 with code 1404): get_session returns None
MissesSession(t, pc) ==
    /\ task[t].pc = pc
    /\ Answered(t, "get_session", "notFound")

\* C22: when the upstream reports SessionNotFound, get_session returns None,
\* raises nothing and leaves the cache unchanged: getSession answers the
\* requester with the literal {} and no error frame, a peer relay for the
\* session is dropped with nothing forwarded, and an endSession for it issues
\* no upstream pause or close.
C22_SessionNotFound ==
    [][/\ \A p \in Peers :
            MissesSession(L(p), "gs_get") =>
                /\ UNCHANGED <<cache, up, peers, calls, ncalls>>
                /\ NewFrames("error") = {}
                /\ IsOpen(p) => /\ sent' = Send(sent, EmptyObject(p))
                                /\ task'[L(p)].pc = "send"
                                /\ IsOpen(p)'
       /\ \A p \in Peers :
            MissesSession(L(p), "pm_get") =>
                /\ UNCHANGED <<cache, up, peers, calls, ncalls, sent, ws>>
                /\ task'[L(p)] = Idle
       /\ \A t \in Tasks :
            MissesSession(t, "es_get") =>
                /\ UNCHANGED <<cache, up, peers, calls, ncalls, endFrames>>
                /\ task'[t].pc \notin {"es_up", "es_evict", "es_ended"}
                /\ sent' \subseteq Send(sent, Frame(t[1], "sessionEnded", t[1], t[2], task[t].sid, 0))
       /\ \A t \in Tasks :
            (task[t].pc = "es_gone" /\ task'[t] # task[t]) =>
                /\ UNCHANGED <<cache, up, peers, calls, ncalls, endFrames, sent>>
                /\ task'[t] = Idle
      ]_vars

\* C22 witness: a getSession for a session the upstream does not have has been
\* answered with the literal {}
C22_Witness ==
    \E p \in Peers :
        /\ EmptyObject(p) \in sent
        /\ \A s \in Sessions : ~up[s].ex /\ cache[s] = NoSession
        /\ task[L(p)] = Idle
        /\ \A f \in sent : f.type # "error"

\* C23: the frames of one peer are handled strictly in arrival order: the
\* read loop of a peer takes its next frame only when the handler of the frame
\* before has finished, with all its upstream calls and sends: a frame is
\* taken by an idle loop only, and every frame a read loop sends is sent by
\* the handler it is running.  (Handlers of different connections do
\* interleave: the witness has two of them suspended at once.)
C23_InArrivalOrder ==
    [][/\ \A p \in Peers :
            Dispatches(p) => /\ task[L(p)] = Idle
                             /\ nframes' = nframes + 1
       /\ \A p \in Peers :
            (task[L(p)].pc # "idle" /\ task'[L(p)] # task[L(p)]) =>
                /\ UNCHANGED nframes
                /\ ~Dispatches(p)
       /\ \A f \in sent' \ sent :
            f.ctx = Loop => (task[L(f.by)].pc # "idle" \/ Dispatches(f.by))
      ]_vars

\* C23 witness: the consumer's startSession has been handled to its end, both
\* frames sent, and its next frame, a getSessions, is being handled, while the
\* disconnect handler of the other connection is suspended as well
C23_Witness ==
    \E p \in Peers : \E q \in Peers \ {p} :
        /\ \E sid \in Sessions : SessionStartedRequest(q, p, sid) \in sent
        /\ task[L(p)].pc = "gss_up"
        /\ nframes = 2
        /\ task[D(q)].pc \in {"list", "es_get", "es_up"}

\* the step removes exactly p from the registry
Removes(p) == p \in peers /\ peers' = peers \ {p}

\* C24: a peer leaves the registry iff its WebSocket has closed or it was
\* displaced as the other peer of a session being terminated: but for a new
\* connection the registry only shrinks, one peer at a time, by the
\* disconnect procedure of that peer or by the eviction step of an
\* end-session that goes on to the upstream pause/close; and every registered
\* peer whose WebSocket closes is eventually removed.
C24_RegistryRemoval ==
    /\ [][(peers' # peers /\ ~\E p \in Peers : Connect(p)) =>
            \E p \in Peers :
               /\ Removes(p)
               /\ \/ /\ ~IsOpen(p)
                     /\ handle_connection_closed(p)
                  \/ \E t \in Tasks :
                       /\ EndSessionEvict(t)
                       /\ task[t].tgt = p
                       /\ endFrames[p] > 0
                       /\ ncalls'[task[t].sid] = ncalls[task[t].sid] + 1
         ]_vars
    /\ \A p \in Peers : (p \in peers /\ ~IsOpen(p)) ~> (p \notin peers)

\* C24 witness: one peer has left the registry through its own disconnect and
\* the other by eviction, its WebSocket still open
C24_Witness ==
    \E p \in Peers : \E q \in Peers \ {p} :
        /\ peers = {}
        /\ task[D(p)].pc \in {"es_up", "done"}
        /\ IsOpen(q)
        /\ task[D(q)].pc = "none"
        /\ endFrames[q] = 1

\* C25: the producer directory is never cleared implicitly: no step removes a
\* key of consumers_to_producers, an entry changes only by the setPeerStatus
\* of a producer naming that consumer, a step that removes a peer from the
\* registry leaves the directory as it is, and a list response shows the
\* producer of the requester's entry only while that producer is registered.
C25_DirectoryNeverCleared ==
    [][/\ \A c \in Peers :
            /\ c2p[c] # None => c2p'[c] # None
            /\ c2p'[c] # c2p[c] =>
                  \E p \in Peers, roles \in RolesLists :
                      /\ handle_set_peer_status(p, roles, c)
                      /\ c2p'[c] = p
       /\ peers' # peers => UNCHANGED c2p
       /\ \A f \in NewFrames("list") :
            f.body # <<>> => /\ f.body[1][1] = c2p[f.to]
                             /\ f.body[1][1] \in peers
      ]_vars

\* C25 witness: the producer of a consumer's directory entry has disconnected
\* and left the registry, its entry is still in the directory of the
\* connected consumer
C25_Witness ==
    \E c \in Peers : \E p \in Peers \ {c} :
        /\ c2p[c] = p
        /\ p \notin peers
        /\ task[D(p)].pc \in {"done", "failed"}
        /\ c \in peers
        /\ IsOpen(c)

\* C26: when the upstream rejects a createSession because the sessions quota
\* of the user is exceeded, the requesting consumer gets an error frame with
\* code 1429, not the 1409 of the other session service errors.
C26_QuotaExceededSurfaced ==
    [][\A p \in Peers :
         (CreateSessionDone(p, "quotaExceeded") /\ IsOpen(p)) =>
             /\ \E f \in NewFrames("error") :
                   FirstCopy(f) = ErrorResponse(p, ERROR_SESSIONS_QUOTA_LIMIT_EXCEEDED)
             /\ \A f \in NewFrames("error") : f.code # ERROR_SESSIONSVC
      ]_vars

\* C27: a mutation invalidates the cache before it returns control: when a
\* pause_session or close_session call returns to its caller, normally or by
\* raising an upstream error, the cache holds no entry for the session, so
\* that the next get_session misses the cache and no entry loaded before the
\* mutation survives it.
C27_MutationInvalidatesCache ==
    [][\A t \in Tasks :
         (task[t].pc = "es_up" /\ task'[t].pc # "es_up") =>
             cache'[task[t].sid] = NoSession
      ]_vars

\* C28: once start_session has completed with success, the cached entry of
\* the session shows the state after the start, with ws_conn.producer_id the
\* producer of the call, whatever other connections read of the session while
\* the upstream start call was in flight: when start_session has returned
\* and startSession is sent to the producer, the cache routes the frames of
\* the consumer to the producer and back.
C28_CacheAfterStart ==
    [][\A f \in NewFrames("startSession") :
         LET r == task[L(f.by)] IN
         /\ cache'[f.sid].ok
         /\ cache'[f.sid].prod = r.tgt
         /\ cache'[f.sid].cons = f.by
         /\ other_peer_id(cache'[f.sid], f.by) = r.tgt
      ]_vars

\* C29: the ending flag is sticky: a cached session with ending = TRUE keeps
\* it until its entry is invalidated, also when a get_session that missed the
\* cache before completes its upstream load and replaces the entry; every
\* session a getSession answers with while the entry is marked shows
\* ending = TRUE.
C29_EndingSticky ==
    [][\A sid \in Sessions :
         (cache[sid].ok /\ cache[sid].ending) =>
             /\ cache'[sid] = NoSession \/ (cache'[sid].ok /\ cache'[sid].ending)
             /\ \A f \in NewFrames("session") : f.sid = sid => f.body[3] = TRUE
      ]_vars

\* C29 witness: a getSession has been answered with a session marked ending,
\* and the cache still holds the marked entry
C29_Witness ==
    \E sid \in Sessions :
        /\ cache[sid].ok
        /\ cache[sid].ending
        /\ \E f \in sent : f.type = "session" /\ f.sid = sid /\ f.body[3] = TRUE

\* the upstream call that the read loop of p is waiting for fails in this
\* step, whatever the request it handles: sessionsvc raises
\* SessionSvcException
UpstreamFails(p) ==
    /\ answer'.by = L(p)
    /\ answer'.outcome \in FailureOutcomes

\* C30: whatever the request that calls the session service, if the upstream
\* call fails the requester gets an error frame with code 1409 and its read
\* loop goes on with the next frame once that frame is sent.
C30_UpstreamFailureSurfaced ==
    [][\A p \in Peers :
         (UpstreamFails(p) /\ IsOpen(p)) =>
             /\ \E f \in NewFrames("error") :
                   FirstCopy(f) = ErrorResponse(p, ERROR_SESSIONSVC)
             /\ task'[L(p)] = At("err_send")
             /\ IsOpen(p)'
      ]_vars

\* the end-session handler that the read loop of p runs for session sid goes
\* on in this step with the session get_session has handed to it: at entry,
\* when the session is cached, or when the upstream answers
EndSessionGoesOn(p, sid) ==
    \/ /\ task[L(p)].pc = "idle"
       /\ cache[sid].ok
       /\ \E soft \in BOOLEAN : handle_end_session(p, sid, soft)
    \/ /\ task[L(p)].pc = "es_get"
       /\ task[L(p)].sid = sid
       /\ Answered(L(p), "get_session", "found")

\* p is neither the consumer nor the producer recorded in the session
\* (Session.other_peer_id raises UnknownPeerException for it)
IsStranger(session, p) == session.ok /\ p \notin {session.cons, session.prod}

\* C33: an endSession request from a peer that is neither the consumer nor
\* the producer recorded in the named session has no effect on that session:
\* the step in which its handler holds the session does not mark it ending,
\* sends no endSession frame, evicts nobody and issues no upstream pause or
\* close.
C33_StrangerEndSessionNoEffect ==
    [][\A p \in Peers, sid \in Sessions :
         (EndSessionGoesOn(p, sid) /\ IsStranger(SessionInHand(L(p), sid), p)) =>
             /\ cache'[sid].ok => cache'[sid].ending = SessionInHand(L(p), sid).ending
             /\ NewFrames("endSession") = {}
             /\ UNCHANGED <<peers, endFrames, calls, ncalls>>
      ]_vars

\* an end-session handler for session sid is in progress: it has marked the
\* session, or waits for it, or waits for the send of its closing sessionEnded
\* frame (line 123), and has not returned
EndingInProgress(sid) ==
    \E t \in Tasks :
        /\ task[t].pc \in EndSessionPcs \cup {"send"}
        /\ task[t].sid = sid

\* C35: a session is never left stuck in the ending state: whenever the cache
\* holds the session with ending = TRUE, an end-session handler for it is
\* still in progress; once every handler that marked it has finished, also
\* after a failed pause or close call, the cache holds no entry with
\* ending = TRUE for it.
C35_EndingNeverStuck ==
    \A sid \in Sessions :
        (cache[sid].ok /\ cache[sid].ending) => EndingInProgress(sid)

\* the producers a list response names
ListedProducers(f) == {f.body[i][1] : i \in 1..Len(f.body)}

\* C34: repeated setPeerStatus requests never corrupt the producer directory:
\* every producer entry returned in a list response refers to a peer that is
\* registered and whose role is Producer when the response is sent; a peer
\* that announced itself as the producer for a consumer and has since sent
\* setPeerStatus with "listener" among its roles is not offered any more.
C34_ListedProducersAreProducers ==
    [][\A f \in NewFrames("list") :
         \A q \in ListedProducers(f) : q \in peers /\ role[q] = PRODUCER
      ]_vars

\* the end-session handler run by task t holds the session sid in this step:
\* get_session has returned it, from the cache at the handler's entry (a
\* frame of the read loop, or the next session of a disconnect) or from the
\* upstream, whose answer was the session
HandlerHoldsSession(t, sid) ==
    \/ /\ t[2] = Loop
       /\ task[t].pc = "idle"
       /\ cache[sid].ok
       /\ \E soft \in BOOLEAN : handle_end_session(t[1], sid, soft)
    \/ /\ t[2] = Closed
       /\ task[t].pc = "next"
       /\ sid \in task[t].todo
       /\ cache[sid].ok
       /\ task'[t] # task[t]
    \/ /\ task[t].pc = "es_get"
       /\ task[t].sid = sid
       /\ Answered(t, "get_session", "found")

\* task t issues one upstream pause or close call for sid in this step and
\* waits for its answer
IssuesOneCall(t, sid) ==
    /\ task'[t].pc = "es_up"
    /\ task'[t].sid = sid
    /\ ncalls' = [ncalls EXCEPT ![sid] = @ + 1]
    /\ \E kind \in {"pause", "close"} :
          calls' = calls \cup {[by |-> t[1], ctx |-> t[2], sid |-> sid, kind |-> kind]}

\* C32: a handler that holds a session that exists and is not ending issues
\* the upstream pause or close exactly once, whatever fails in the guarded
\* block: it issues the call in the step in which it holds the session when
\* the other peer cannot be computed, is not registered, or cannot be sent
\* the endSession frame, and otherwise in its next step, after the eviction;
\* while it waits for the answer and when it ends it issues no other call.
C32_CallIssuedExactlyOnce ==
    [][\A t \in Tasks, sid \in Sessions :
         LET session == SessionInHand(t, sid)
             other == other_peer_id(session, t[1])
         IN  /\ (HandlerHoldsSession(t, sid) /\ session.ok /\ ~session.ending) =>
                   IF other \in peers /\ IsOpen(other)
                   THEN /\ task'[t].pc = "es_evict"
                        /\ task'[t].sid = sid
                        /\ UNCHANGED <<calls, ncalls>>
                   ELSE /\ IssuesOneCall(t, sid)
                        /\ UNCHANGED <<peers, sent>>
             /\ (task[t].pc = "es_evict" /\ task[t].sid = sid /\ task'[t] # task[t]) =>
                   IssuesOneCall(t, sid)
             /\ (task[t].pc = "es_up" /\ task[t].sid = sid /\ task'[t] # task[t]) =>
                   /\ task'[t].pc \notin EndSessionPcs
                   /\ UNCHANGED <<calls, ncalls>>
      ]_vars

\* C32 witness: a handler has issued its call although the other peer of the
\* session, still registered, had its WebSocket closed: the send to it has
\* raised, and it got no endSession frame and was not evicted
C32_Witness ==
    \E t \in Tasks :
        LET sid == task[t].sid IN
        /\ task[t].pc = "es_up"
        /\ cache[sid].ok
        /\ LET other == other_peer_id(cache[sid], t[1]) IN
           /\ other \in peers \ {t[1]}
           /\ ~IsOpen(other)
           /\ \A f \in sent : ~(f.type = "endSession" /\ f.to = other)
        /\ ncalls[sid] = 1
        /\ \E c \in calls : c.by = t[1] /\ c.ctx = t[2] /\ c.sid = sid

\* The steps of OrderNext when the upstream answers every call of a
\* teardown: the listing of a peer's sessions, the get of a session to end
\* and its pause or close
TeardownNext ==
    \/ \E p \in Peers : OrderConnectionCloses(p)
    \/ \E p \in Peers : handle_connection_closed(p)
    \/ \E p \in Peers : ConnectionClosedListedOk(p)
    \/ \E p \in Peers : ConnectionClosedNext(p)
    \/ \E p \in Peers, sid \in Sessions, soft \in BOOLEAN : handle_end_session(p, sid, soft)
    \/ \E t \in Tasks : EndSessionGotAnswer(t)
    \/ \E t \in Tasks : SessionEndedSent(t)
    \/ \E t \in Tasks : EndSessionEvict(t)
    \/ \E t \in Tasks : EndSessionDoneOk(t)
    \/ \E p \in Peers, sid \in Sessions : handle_peer_msg(p, sid)
    \/ \E p \in Peers : PeerMsgGot(p)
    \/ \E p \in Peers, sid \in Sessions, q \in Peers : handle_start_session(p, sid, q)
    \/ \E p \in Peers : StartSessionStarted(p)
    \/ \E p \in Peers : StartSessionGot(p)
    \/ \E p \in Peers : StartSessionSent(p)
    \/ \E p \in Peers, roles \in RolesLists, c \in Peers \cup {None} :
          handle_set_peer_status(p, roles, c)
    \/ \E p \in Peers : PeerStatusForwarded(p)
    \/ \E p \in Peers : handle_list(p)
    \/ \E p \in Peers : handle_create_session(p)
    \/ \E p \in Peers, outcome \in CreateOutcomes : CreateSessionDone(p, outcome)
    \/ \E p \in Peers, sid \in Sessions : handle_get_session(p, sid)
    \/ \E p \in Peers, outcome \in GetOutcomes : GetSessionGot(p, outcome)
    \/ \E p \in Peers : handle_get_sessions(p)
    \/ \E p \in Peers : GetSessionsListed(p)
    \/ \E p \in Peers, sid \in Sessions : handle_submit_webrtc_stats(p, sid)
    \/ \E p \in Peers : SubmitWebRtcStatsDone(p)
    \/ \E p \in Peers, frame \in UnroutedFrames : handle_unrouted(p, frame)
    \/ \E t \in Tasks : LastSendDone(t)
    \/ \E p \in Peers : ErrorSent(p)
    \/ \E p \in Peers : LoopEnds(p)

\* The broker of OrderInit with its event loop running and such an upstream:
\* the callback of a closed WebSocket is run, and a disconnect procedure or an
\* end-session handler that waits for the upstream, or for a send, goes on.
TeardownSpec ==
    /\ OrderInit
    /\ [][TeardownNext]_vars
    /\ \A p \in Peers : WF_vars(handle_connection_closed(p))
    /\ \A p \in Peers : WF_vars(ConnectionClosedListedOk(p))
    /\ \A p \in Peers : WF_vars(ConnectionClosedNext(p))
    /\ \A t \in Tasks : WF_vars(EndSessionGotAnswer(t))
    /\ \A t \in Tasks : WF_vars(SessionEndedSent(t))
    /\ \A t \in Tasks : WF_vars(EndSessionEvict(t))
    /\ \A t \in Tasks : WF_vars(EndSessionDoneOk(t))

\* the WebSocket of p, a peer with a role, has just closed (its disconnect
\* procedure is scheduled) while the upstream lists sid, active, among the
\* sessions of p
ClosedWithActiveSession(p, sid) ==
    /\ ~IsOpen(p)
    /\ task[D(p)].pc = "pending"
    /\ role[p] \in PeerRole
    /\ sid \in get_peer_sessions(p)
    /\ up[sid].st = "active"

\* C31: liveness of teardown: whenever the WebSocket of a peer with a role
\* closes, every active session the upstream lists for that peer is
\* eventually paused or closed upstream (or is no longer a session of that
\* peer), through the peer's disconnect procedure or an end-session of the
\* other peer, given that the upstream calls of the teardown succeed; also
\* for a peer that was evicted from the registry before.
C31_TeardownLiveness ==
    \A p \in Peers, sid \in Sessions :
        ClosedWithActiveSession(p, sid) ~>
            (up[sid].st # "active" \/ sid \notin get_peer_sessions(p))

====
